---------------------------- MODULE Spec2Model ----------------------------
(***************************************************************************)
(* Model of the streaming layer of Social AI Studio:                       *)
(*   src/src/agent.py  run_agent_stream (retry loop, fragment              *)
(*                     normalisation, tool-event tracker, reasoning        *)
(*                     accumulator, finalisation, error path)              *)
(*   src/src/tools.py  the per-request image side channel                  *)
(*   src/src/api.py    chat.generate, the SSE encoder                      *)
(*                                                                         *)
(* Strings the code only tests with "in" are modelled as the set of the    *)
(* marker substrings they contain; texts the code compares by prefix and   *)
(* suffix are sequences of characters.  Python dicts are sequences of      *)
(* <<key, value>> pairs with unique keys, in insertion order.              *)
(***************************************************************************)
EXTENDS Integers, Sequences, FiniteSets, TLC

\* ------------------------------------------------------------ bounds ----
\* fragments (content items, raw events) consumed in one turn
MaxFragments == 3
\* fragments consumed in one turn observed for its tool events
MaxToolFragments == 2
\* characters in one reasoning fragment
MaxReasoningLen == 2
\* annotations on one text content item
MaxAnnotations == 2
\* output items of one response envelope
MaxItems == 1
\* images one turn's generate_image calls store
MaxImages == 1
\* images the generate_image calls of concurrent turns store
MaxPuts == 2
\* output items in the envelope of a usage content item
MaxUsageItems == 2
\* operations of one sequence on the image store
MaxStoreOps == 4
\* POST /api/chat requests of one run
MaxChats == 2
\* POST /api/chat requests of a run of chat turns only
MaxThreadChats == 3

\* ------------------------------------------------- program constants ----
REASONING_THROTTLE_MS == 100
MAX_RETRIES == 2
MESSAGE_MIN_LENGTH == 1
MESSAGE_MAX_LENGTH == 10000
TITLE_LENGTH == 50

\* An absent or falsy string attribute (None or "") is "".

\* --------------------------------------------------- generic helpers ----
Last(s) == s[Len(s)]

IsPrefix(p, s) == Len(p) <= Len(s) /\ SubSeq(s, 1, Len(p)) = p

IsSuffix(p, s) == Len(p) <= Len(s) /\ SubSeq(s, Len(s) - Len(p) + 1, Len(s)) = p

SeqsUpTo(S, n) == UNION {[1..k -> S] : k \in 0..n}

\* str.startswith
startswith(s, p) == IsPrefix(p, s)

\* str.endswith
endswith(s, p) == IsSuffix(p, s)

\* `p in s` for a string s modelled as the set of marker substrings it holds
Contains(s, p) == p \in s

\* x or y, for attributes where "" is the falsy value
Or(x, y) == IF x # "" THEN x ELSE y

\* ------------------------------------------------------ python dicts ----
DictKeys(d) == {d[i][1] : i \in 1..Len(d)}

DictGet(d, k, dflt) ==
    IF k \in DictKeys(d)
    THEN LET i == CHOOSE j \in 1..Len(d) : d[j][1] = k IN d[i][2]
    ELSE dflt

\* d[k] = v : an existing key keeps its position
DictSet(d, k, v) ==
    IF k \in DictKeys(d)
    THEN [i \in 1..Len(d) |-> IF d[i][1] = k THEN <<k, v>> ELSE d[i]]
    ELSE Append(d, <<k, v>>)

RECURSIVE DictMerge(_, _)
\* {**a, **b}
DictMerge(a, b) ==
    IF b = <<>> THEN a
    ELSE DictMerge(DictSet(a, b[1][1], b[1][2]), Tail(b))

\* ------------------------------------------------------------ events ----
\* A domain event as run_agent_stream yields it.  id is the identity under
\* which the tracker emitted a tool event (not on the wire).
Event(kind, name, status, text, id) ==
    [kind |-> kind, name |-> name, status |-> status, text |-> text, id |-> id]

create_tool_event(tool_name, status, id) == Event("tool", tool_name, status, <<>>, id)

ReasoningUpdate(text) == Event("reasoning", "", "", text, "")

TextChunk(text) == Event("text", "", "", text, "")

ImageReady(platform, b64) == Event("image", platform, "", <<b64>>, "")

ErrorEvent(message) == Event("error", message, "", <<>>, "")

\* ------------------------------------------------------ input domains ----
\* names of function tools; "" is a fragment that carries no name
ToolNames == {"search"}

\* correlation ids of function calls; "" is a fragment that carries no id
CallIds == {"t1"}

\* ids of hosted-tool items
ItemIds == {"ws_1"}

\* characters of reasoning text
ReasoningAlphabet == {"a", "b"}

ReasoningTexts == SeqsUpTo(ReasoningAlphabet, MaxReasoningLen)

\* texts of text fragments: empty, whitespace only, plain
Texts == {<<>>, <<" ">>, <<"a">>}

\* milliseconds of wall-clock time that pass before a reasoning fragment
Delays == {0, 60, 100}

\* the change of time.time() * 1000 between two readings: the clock is the
\* system's wall clock, which an adjustment can also set back
ClockSteps == Delays \cup {-60}

\* time.time() * 1000 at the start of the turn
StartTimeMs == 1000

\* annotation type strings, as the markers they contain
AnnTypes == {{"url_citation"}, {"file_citation"}, {}}

\* the annotations of one text content item
AnnotationLists == SeqsUpTo(AnnTypes, MaxAnnotations)

\* output item / content type strings of hosted tools, as the markers they
\* contain ("web_search_call" contains "web_search")
WebSearchCall == {"web_search_call", "web_search"}

FileSearchCall == {"file_search_call", "file_search"}

McpCall == {"mcp_call"}

MessageItem == {"message"}

\* content types of the hosted content-item branch
HostedContentTypes == {"web_search_call", "file_search_call", "mcp_call", "mcp_list_tools"}

ItemTypes == {WebSearchCall, FileSearchCall, MessageItem}

\* an output item of a Response: its type string and its id
OutputItems ==
    [type : {WebSearchCall, FileSearchCall}, id : ItemIds \cup {""}]
    \cup {[type |-> MessageItem, id |-> "msg_1"]}

\* the output of one response envelope
OutputLists == SeqsUpTo(OutputItems, MaxItems)

\* output items whose ids are those of the items themselves: an id belongs
\* to one item of one type
UsageItems ==
    [type : {WebSearchCall}, id : {"ws_1", ""}]
    \cup [type : {FileSearchCall}, id : {"fs_1"}]
    \cup {[type |-> MessageItem, id |-> "msg_1"]}

\* the output of the envelope of one usage content item
UsageLists == SeqsUpTo(UsageItems, MaxUsageItems)

\* an absent item: falsy, without type or id
NoItem == [type |-> {}, id |-> ""]

\* raw stream events: type string (markers contained; an update without raw
\* event behaves as one whose type is empty), item_id-or-id, the nested item
\* (NoItem when absent), and whether the event is a dict
TypedRawTypes ==
    {WebSearchCall, WebSearchCall \cup {"completed"},
     FileSearchCall, FileSearchCall \cup {"completed"}}

OutputItemRawTypes == {{"output_item"}, {"output_item", "done"}}

\* response.<tool>_call.* events carry item_id; response.output_item.*
\* events carry the item; any other event matches nothing
RawEvents ==
    [type : TypedRawTypes, item_id : ItemIds \cup {""}, item : {NoItem}, is_dict : {FALSE}]
    \cup [type : {WebSearchCall}, item_id : {""}, item : {[type |-> WebSearchCall, id |-> "ws_1"]},
          is_dict : {FALSE}]
    \cup [type : OutputItemRawTypes, item_id : {""}, item : OutputItems, is_dict : BOOLEAN]
    \cup {[type |-> {}, item_id |-> "", item |-> NoItem, is_dict |-> FALSE]}

Platforms == {"linkedin", "instagram"}

ImageData == {"img1", "img2"}

\* exception texts (lowercased), as the markers they contain
FaultTexts ==
    {{"429"}, {"502"}, {"timed out"}, {"failed to complete the prompt"},
     {"invalid api key"}, {"connection refused"}}

\* --------------------------------------------------- agent.py helpers ----
\* _is_retryable_error
is_retryable_error(exc) ==
    \/ Contains(exc, "failed to complete the prompt")
    \/ Contains(exc, "429") \/ Contains(exc, "rate limit") \/ Contains(exc, "too many requests")
    \/ Contains(exc, "500") \/ Contains(exc, "502") \/ Contains(exc, "503") \/ Contains(exc, "504")
    \/ Contains(exc, "internal server error") \/ Contains(exc, "service unavailable")
    \/ Contains(exc, "timeout") \/ Contains(exc, "timed out")

\* the retry loop's decision after agent.run raised on attempt (0-based),
\* taken one attempt too late
should_retry_late(exc, att) == is_retryable_error(exc) /\ att <= MAX_RETRIES

\* the retry loop's decision after agent.run raised on attempt (0-based)
should_retry(exc, att) == is_retryable_error(exc) /\ att < MAX_RETRIES

\* the two user-facing messages of the except block
MsgUnavailable == "service temporarily unavailable"

MsgGeneric == "error occurred, please retry"

agent_user_message(exc) == IF is_retryable_error(exc) THEN MsgUnavailable ELSE MsgGeneric

\* the except block of run_agent_stream: the events it yields before it
\* re-raises; acc and images are the reasoning buffer and the stored images
\* at the time of the fault
agent_except_flushing(exc, acc, images) ==
    (IF acc # <<>> THEN <<ReasoningUpdate(acc)>> ELSE <<>>)
    \o <<ErrorEvent(agent_user_message(exc))>>

agent_except(exc, acc, images) == <<ErrorEvent(agent_user_message(exc))>>

\* _HOSTED_PATTERNS, in dict order
HOSTED_PATTERNS ==
    << <<"web_search_call", "web_search">>, <<"web_search", "web_search">>,
       <<"file_search_call", "file_search">>, <<"file_search", "file_search">>,
       <<"mcp_call", "mcp_search">>, <<"mcp_list_tools", "mcp_search">> >>

\* for pattern, tool_name in _HOSTED_PATTERNS.items(): if pattern in s: ... break
\* the tool of the first pattern s contains whose tool is not in skipped, ""
\* when none
FirstPattern(s, skipped) ==
    LET hits == {i \in 1..Len(HOSTED_PATTERNS) :
                    Contains(s, HOSTED_PATTERNS[i][1]) /\ HOSTED_PATTERNS[i][2] \notin skipped}
    IN IF hits = {} THEN ""
       ELSE HOSTED_PATTERNS[CHOOSE i \in hits : \A j \in hits : i <= j][2]

\* _HOSTED_PATTERNS.get(ct, "unknown_tool") for a content type being one key
HostedToolOf(ct) ==
    LET hits == {i \in 1..Len(HOSTED_PATTERNS) : HOSTED_PATTERNS[i][1] = ct}
    IN IF hits = {} THEN "unknown_tool"
       ELSE HOSTED_PATTERNS[CHOOSE i \in hits : TRUE][2]

\* ------------------------------------------------- tool-event tracker ----
\* The tracker state threaded through one step: emitted_tool_starts,
\* emitted_tool_ends, call_id_to_name, _detected_hosted, and the events the
\* step has yielded so far.
MapSet(f, k, v) == [x \in DOMAIN f \cup {k} |-> IF x = k THEN v ELSE f[x]]

MapGet(f, k, dflt) == IF k \in DOMAIN f THEN f[k] ELSE dflt

Yield(T, ev) == [T EXCEPT !.evs = Append(@, ev)]

\* _emit_start
emit_start(T, tool_name, item_id) ==
    IF item_id \notin T.starts
    THEN Yield([T EXCEPT !.starts = @ \cup {item_id},
                         !.names = MapSet(@, item_id, tool_name),
                         !.detected = @ \cup {tool_name}],
               create_tool_event(tool_name, "started", item_id))
    ELSE T

\* _emit_end
emit_end(T, tool_name, item_id) ==
    IF item_id \notin T.ends
    THEN LET T1 == [T EXCEPT !.ends = @ \cup {item_id},
                             !.detected = @ \cup {tool_name}]
             T2 == IF item_id \notin T1.starts
                   THEN [T1 EXCEPT !.starts = @ \cup {item_id},
                                   !.names = MapSet(@, item_id, tool_name)]
                   ELSE T1
         IN Yield(T2, create_tool_event(tool_name, "completed", item_id))
    ELSE T

\* a pair followed by a second completed event
emit_pair_repeated(T, tool_name, item_id) ==
    Yield(emit_end(emit_start(T, tool_name, item_id), tool_name, item_id),
          create_tool_event(tool_name, "completed", item_id))

emit_pair(T, tool_name, item_id) == emit_end(emit_start(T, tool_name, item_id), tool_name, item_id)

\* the function_call branch
function_call(T, name, call_id_attr) ==
    LET tool_name == Or(name, "unknown_tool")
        call_id == Or(call_id_attr, tool_name)
        T1 == IF tool_name # "unknown_tool"
              THEN [T EXCEPT !.names = MapSet(@, call_id, tool_name)]
              ELSE T
    IN IF call_id \notin T1.starts
       THEN Yield([T1 EXCEPT !.starts = @ \cup {call_id}],
                  create_tool_event(tool_name, "started", call_id))
       ELSE T1

\* the function_result branch
function_result(T, name, call_id_attr) ==
    LET call_id == Or(call_id_attr, "")
        tool_name == Or(name, Or(MapGet(T.names, call_id, ""), "unknown_tool"))
    IN IF call_id # "" /\ call_id \notin T.ends
       THEN Yield([T EXCEPT !.ends = @ \cup {call_id}],
                  create_tool_event(tool_name, "completed", call_id))
       ELSE T

\* the hosted content-item branch (web_search_call, file_search_call, mcp_*)
hosted_content(T, ct, id, call_id) ==
    LET tool_name == HostedToolOf(ct)
        item_id == Or(id, Or(call_id, tool_name))
    IN emit_start(T, tool_name, item_id)

RECURSIVE annotations_scan(_, _)
\* the annotation loop of the text branch
annotations_scan(T, anns) ==
    IF anns = <<>> THEN T
    ELSE LET ann_type == Head(anns)
             T1 == IF Contains(ann_type, "url_citation") /\ "web_search" \notin T.detected
                   THEN emit_pair(T, "web_search", "ws_annotation")
                   ELSE IF Contains(ann_type, "file_citation") /\ "file_search" \notin T.detected
                   THEN emit_pair(T, "file_search", "fs_annotation")
                   ELSE T
         IN annotations_scan(T1, Tail(anns))

\* the text branch with the text yielded after the annotation loop
text_content_late(T, text, anns) == Yield(annotations_scan(T, anns), TextChunk(text))

\* the text branch
text_content(T, text, anns) == annotations_scan(Yield(T, TextChunk(text)), anns)

RECURSIVE usage_scan_backwards(_, _)
\* the usage branch going through resp.output from its last item
usage_scan_backwards(T, items) ==
    IF items = <<>> THEN T
    ELSE LET out_item == items[Len(items)]
             tool_name == FirstPattern(out_item.type, {})
             T1 == IF tool_name # ""
                   THEN emit_pair(T, tool_name, Or(out_item.id, tool_name))
                   ELSE T
         IN usage_scan_backwards(T1, SubSeq(items, 1, Len(items) - 1))

RECURSIVE usage_scan(_, _)
\* the usage branch: for out_item in resp.output
usage_scan(T, items) ==
    IF items = <<>> THEN T
    ELSE LET out_item == Head(items)
             tool_name == FirstPattern(out_item.type, {})
             T1 == IF tool_name # ""
                   THEN emit_pair(T, tool_name, Or(out_item.id, tool_name))
                   ELSE T
         IN usage_scan(T1, Tail(items))

RECURSIVE response_scan(_, _)
\* post-stream: for output_item in stream.response.output
response_scan(T, items) ==
    IF items = <<>> THEN T
    ELSE LET output_item == Head(items)
             tool_name == FirstPattern(output_item.type, T.detected)
             T1 == IF tool_name # ""
                   THEN emit_pair(T, tool_name, Or(output_item.id, tool_name))
                   ELSE T
         IN response_scan(T1, Tail(items))

\* raw-event detection, first part: hosted tool named by raw_type
raw_type_detect(T, raw) ==
    LET matched_tool == FirstPattern(raw.type, {})
        nested == IF raw.item_id = "" /\ raw.item # NoItem THEN raw.item.id ELSE raw.item_id
        item_id == Or(nested, matched_tool)
        is_completed == Contains(raw.type, "completed") \/ Contains(raw.type, "done")
    IN IF matched_tool = "" THEN T
       ELSE IF is_completed THEN emit_end(T, matched_tool, item_id)
       ELSE emit_start(T, matched_tool, item_id)

\* raw-event detection, second part: output_item events carrying a hosted item
raw_output_item_detect(T, raw) ==
    IF ~Contains(raw.type, "output_item") \/ raw.item = NoItem THEN T
    ELSE LET tool_name == FirstPattern(raw.item.type, {})
             iid == IF raw.is_dict THEN Or(raw.item.id, tool_name) ELSE raw.item.id
         IN IF tool_name = "" THEN T
            ELSE IF Contains(raw.type, "done") THEN emit_end(T, tool_name, iid)
            ELSE emit_start(T, tool_name, iid)

raw_detect(T, raw) == raw_output_item_detect(raw_type_detect(T, raw), raw)

\* ---------------------------------------------- reasoning accumulator ----
\* the merge with the cumulative test turned round: a fragment that is a
\* leading substring of the buffer replaces it
merge_reasoning_swapped(accumulated, text) ==
    IF accumulated # <<>> /\ startswith(accumulated, text) THEN text
    ELSE IF endswith(accumulated, text) THEN accumulated
    ELSE accumulated \o text

\* the merge of the text_reasoning branch
merge_reasoning(accumulated, text) ==
    IF accumulated # <<>> /\ startswith(text, accumulated) THEN text
    ELSE IF endswith(accumulated, text) THEN accumulated
    ELSE accumulated \o text

\* _should_send_reasoning with half the throttle interval
should_send_reasoning_half_interval(t, last) == t - last >= REASONING_THROTTLE_MS \div 2

\* _should_send_reasoning
should_send_reasoning(t, last) == t - last >= REASONING_THROTTLE_MS

\* --------------------------------------------------- tools.py store ----
\* The value of the ContextVar _pending_images in one context: unset (the
\* default None) or a dict.
CvNone == [none |-> TRUE, d |-> <<>>]

CvDict(d) == [none |-> FALSE, d |-> d]

\* init_image_store: the context-scoped store and the fallback after it
init_image_store(cv, fb) == [cv |-> CvDict(<<>>), fb |-> <<>>]

\* pop_pending_images without the reset of _fallback_images
pop_pending_images_keeps_fallback(cv, fb) ==
    LET cv_store == IF cv.none THEN <<>> ELSE cv.d
    IN [ret |-> DictMerge(cv_store, fb), cv |-> CvDict(<<>>), fb |-> fb]

\* pop_pending_images: the merged mapping returned and both stores after it
pop_pending_images(cv, fb) ==
    LET cv_store == IF cv.none THEN <<>> ELSE cv.d
    IN [ret |-> DictMerge(cv_store, fb), cv |-> CvDict(<<>>), fb |-> <<>>]

\* a store write under which the fallback keeps the first artifact of a key
store_image_first_wins(cv, fb, visible, platform_key, image_b64) ==
    [cv |-> IF visible /\ ~cv.none THEN CvDict(DictSet(cv.d, platform_key, image_b64)) ELSE cv,
     fb |-> IF platform_key \in DictKeys(fb) THEN fb ELSE DictSet(fb, platform_key, image_b64)]

\* generate_image's store write; visible says whether the tool's context
\* sees the ContextVar value the turn set
store_image(cv, fb, visible, platform_key, image_b64) ==
    [cv |-> IF visible /\ ~cv.none THEN CvDict(DictSet(cv.d, platform_key, image_b64)) ELSE cv,
     fb |-> DictSet(fb, platform_key, image_b64)]

RECURSIVE image_events(_)
\* for platform, b64 in all_images.items(): yield the image marker
image_events(d) ==
    IF d = <<>> THEN <<>>
    ELSE <<ImageReady(d[1][1], d[1][2])>> \o image_events(Tail(d))

\* ------------------------------------------------ api.py chat.generate ----
\* An SSE event as generate yields it to the client.
SseEvent(kind, name, text) == [kind |-> kind, name |-> name, text |-> text]

\* str.strip() is non-empty
StripNonEmpty(text) == \E i \in 1..Len(text) : text[i] # " "

\* the text of a chunk as str(chunk) gives it; the Error event of
\* run_agent_stream is a JSON string without markers
ChunkText(ev) == IF ev.kind = "error" THEN <<"{", ev.name, "}">> ELSE ev.text

\* the body of the `async for chunk` loop; A is generate's local state:
\* assistant_content, emitted_image_platforms and the events yielded
api_chunk(A, ev) ==
    IF ev.kind = "tool"
    THEN [A EXCEPT !.sse = Append(@, SseEvent("tool_event", ev.name, <<ev.status>>))]
    ELSE IF ev.kind = "image"
    THEN [A EXCEPT !.sse = Append(@, SseEvent("image", ev.name, ev.text)),
                   !.platforms = @ \cup {ev.name}]
    ELSE IF ev.kind = "reasoning"
    THEN [A EXCEPT !.sse = Append(@, SseEvent("reasoning_update", "", ev.text))]
    ELSE LET clean_chunk == ChunkText(ev)
         IN IF StripNonEmpty(clean_chunk)
            THEN [A EXCEPT !.content = @ \o clean_chunk,
                           !.sse = Append(@, SseEvent("text", "", A.content \o clean_chunk))]
            ELSE A

RECURSIVE api_chunks(_, _)
api_chunks(A, evs) ==
    IF evs = <<>> THEN A ELSE api_chunks(api_chunk(A, Head(evs)), Tail(evs))

\* the classification of generate's except block
api_user_message(exc) ==
    IF Contains(exc, "failed to complete the prompt") \/ Contains(exc, "429") \/ Contains(exc, "500")
    THEN MsgUnavailable ELSE MsgGeneric

\* generate's except block falling through to the done signal
generate_except_then_done(events, exc) ==
    events \o <<SseEvent("error", api_user_message(exc), <<>>), SseEvent("done", "", <<>>)>>

\* generate's except block: the events yielded once exc is caught
generate_except(events, exc) == Append(events, SseEvent("error", api_user_message(exc), <<>>))

\* ------------------------------------------------------ database.py ----
ConvIds == {"c1", "c2"}

\* a text of the request: what it says and how many characters it has
UserText(text, len) == [text |-> text, len |-> len]

Message(role, content) == [role |-> role, content |-> content]

\* a stored conversation document; in _memory_store messages is the list
\* object the caller handed over (a reference into heap), in the Cosmos
\* container it is the serialised list
Doc(title, messages, createdAt, updatedAt) ==
    [stored |-> TRUE, title |-> title, messages |-> messages,
     createdAt |-> createdAt, updatedAt |-> updatedAt]

\* no document under that id
NoDoc(messages) ==
    [stored |-> FALSE, title |-> UserText("", 0), messages |-> messages,
     createdAt |-> 0, updatedAt |-> 0]

\* the ids a store holds a document for
StoredIds(store) == {id \in ConvIds : store[id].stored}

\* the calls on the Cosmos container that can raise CosmosHttpResponseError
\* (other than not-found)
ContainerCalls == {"read_item", "upsert_item", "delete_item", "query_items"}

\* _get_container(): the lazy initialisation; configured says whether
\* COSMOS_ENDPOINT is set and the client could be built
get_container(D, configured) ==
    IF D.container # "uninitialized" THEN D
    ELSE [D EXCEPT !.container = IF configured THEN "cosmos" ELSE "none"]

\* save_conversation(); messages is a reference to the caller's list
save_conversation(D0, configured, conversation_id, title, messages, failing) ==
    LET D == get_container(D0, configured)
        t == D.now + 1
        E == [D EXCEPT !.now = t]
        to_memory(createdAt) ==
            [E EXCEPT !.memory[conversation_id] = Doc(title, messages, createdAt, t)]
    IN IF D.container = "cosmos"
       THEN IF "read_item" \in failing THEN to_memory(t)
            ELSE LET existing == D.cosmos[conversation_id]
                     createdAt == IF existing.stored THEN existing.createdAt ELSE t
                 IN IF "upsert_item" \in failing THEN to_memory(createdAt)
                    ELSE [E EXCEPT !.cosmos[conversation_id] =
                                        Doc(title, D.heap[messages], createdAt, t)]
       ELSE to_memory(IF D.memory[conversation_id].stored
                      THEN D.memory[conversation_id].createdAt ELSE t)

\* get_conversation(): the item, None (found = FALSE) or an exception
get_conversation(D0, configured, conversation_id, failing) ==
    LET D == get_container(D0, configured)
    IN IF D.container = "cosmos"
       THEN IF "read_item" \in failing
            THEN [D |-> D, raised |-> TRUE, found |-> FALSE, item |-> NoDoc(<<>>)]
            ELSE [D |-> D, raised |-> FALSE, found |-> D.cosmos[conversation_id].stored,
                  item |-> D.cosmos[conversation_id]]
       ELSE [D |-> D, raised |-> FALSE, found |-> D.memory[conversation_id].stored,
             item |-> D.memory[conversation_id]]

\* a delete that reports success whatever the store holds
delete_conversation_always_true(D0, configured, conversation_id, failing) ==
    LET D == get_container(D0, configured)
    IN IF D.container = "cosmos"
       THEN [D |-> [D EXCEPT !.cosmos[conversation_id] = NoDoc(<<>>)], ok |-> TRUE]
       ELSE [D |-> [D EXCEPT !.memory[conversation_id] = NoDoc(0)], ok |-> TRUE]

\* delete_conversation()
delete_conversation(D0, configured, conversation_id, failing) ==
    LET D == get_container(D0, configured)
    IN IF D.container = "cosmos"
       THEN IF "delete_item" \in failing \/ ~D.cosmos[conversation_id].stored
            THEN [D |-> D, ok |-> FALSE]
            ELSE [D |-> [D EXCEPT !.cosmos[conversation_id] = NoDoc(<<>>)], ok |-> TRUE]
       ELSE IF D.memory[conversation_id].stored
            THEN [D |-> [D EXCEPT !.memory[conversation_id] = NoDoc(0)], ok |-> TRUE]
            ELSE [D |-> D, ok |-> FALSE]

\* the ids of a store, most recently updated first
ByUpdatedAtDesc(store) ==
    LET ids == StoredIds(store)
    IN CHOOSE q \in [1..Cardinality(ids) -> ids] :
          /\ \A i, j \in DOMAIN q : i # j => q[i] # q[j]
          /\ \A i, j \in DOMAIN q : i < j => store[q[i]].updatedAt >= store[q[j]].updatedAt

\* list_conversations()
list_conversations(D0, configured, failing) ==
    LET D == get_container(D0, configured)
    IN IF D.container = "cosmos"
       THEN [D |-> D, convos |-> IF "query_items" \in failing THEN <<>> ELSE ByUpdatedAtDesc(D.cosmos)]
       ELSE [D |-> D, convos |-> ByUpdatedAtDesc(D.memory)]

\* ----------------------------------------------------- api.py chat ----
\* ChatRequest(**body): body parsed as JSON, an object, message present and
\* within its length bounds
ValidChatRequest(body) ==
    /\ body.kind = "object"
    /\ body.has_message
    /\ body.message.len >= MESSAGE_MIN_LENGTH
    /\ body.message.len <= MESSAGE_MAX_LENGTH

\* chat_req.message[:50]
Title(message) ==
    UserText(message.text, IF message.len < TITLE_LENGTH THEN message.len ELSE TITLE_LENGTH)

\* the request bodies a client sends
Body(kind, has_message, message, thread_id) ==
    [kind |-> kind, has_message |-> has_message, message |-> message, thread_id |-> thread_id]

\* one POST /api/chat as the handler leaves it
ChatTurn(pc, status, thread_id, message, history, before) ==
    [pc |-> pc, status |-> status, thread_id |-> thread_id, message |-> message,
     history |-> history, before |-> before, looked |-> FALSE, invoked |-> FALSE,
     events |-> <<>>, text |-> "", saved |-> FALSE, handed |-> <<>>,
     defect |-> "", touched |-> FALSE]

\* a handler that fetches the conversation before it validates the body
chat_looks_first(D0, configured, body, uuid, shield, failing) ==
    LET G == get_conversation(D0, configured, Or(body.thread_id, uuid), failing)
    IN [D |-> G.D,
        turn |-> [ChatTurn("rejected", 400, "", UserText("", 0), 0, <<>>)
                     EXCEPT !.looked = TRUE]]

\* chat(): the handler up to the StreamingResponse it returns
chat(D0, configured, body, uuid, shield, failing) ==
    IF ~ValidChatRequest(body)
    THEN [D |-> D0, turn |-> ChatTurn("rejected", 400, "", UserText("", 0), 0, <<>>)]
    ELSE
    LET thread_id == Or(body.thread_id, uuid)
        user == Message("user", body.message)
    IN IF ~shield.safe /\ shield.attack_detected
       THEN [D |-> D0, turn |-> ChatTurn("blocked", 400, thread_id, body.message, 0, <<>>)]
       ELSE
       LET G == get_conversation(D0, configured, thread_id, failing)
           D == G.D
           looked(turn) == [turn EXCEPT !.looked = TRUE]
       IN IF G.raised
          THEN [D |-> D,
                turn |-> looked(ChatTurn("crashed", 500, thread_id, body.message, 0, <<>>))]
          ELSE IF G.found /\ D.container = "none"
          THEN \* history is the stored list itself
               [D |-> [D EXCEPT !.heap[G.item.messages] = Append(@, user)],
                turn |-> looked(ChatTurn("streaming", 200, thread_id, body.message,
                                         G.item.messages, D.heap[G.item.messages]))]
          ELSE LET existing == IF G.found THEN G.item.messages ELSE <<>>
               IN [D |-> [D EXCEPT !.heap = Append(@, Append(existing, user))],
                   turn |-> looked(ChatTurn("streaming", 200, thread_id, body.message,
                                            Len(D.heap) + 1, existing))]

\* generate(): the stream of one turn, from the agent's outcome to the end
generate(D0, configured, turn, text, agent_fails, failing) ==
    LET started == [turn EXCEPT !.invoked = TRUE, !.text = text]
        content == IF text = "" THEN <<>> ELSE <<"content">>
    IN IF agent_fails
       THEN [D |-> D0, turn |-> [started EXCEPT !.pc = "error", !.events = content \o <<"error">>]]
       ELSE IF text = ""
       THEN [D |-> D0, turn |-> [started EXCEPT !.pc = "done", !.events = <<"done">>]]
       ELSE LET D1 == [D0 EXCEPT !.heap[turn.history] = Append(@, Message("assistant", text))]
            IN [D |-> save_conversation(D1, configured, turn.thread_id, Title(turn.message),
                                        turn.history, failing),
                turn |-> [started EXCEPT !.pc = "done", !.events = <<"content", "done">>,
                                         !.saved = TRUE, !.handed = D1.heap[turn.history]]]

\* ------------------------------------------------------------- state ----
VARIABLES
    pc,                    \* where run_agent_stream / generate stands
    attempt,               \* the retry loop's attempt
    stream_len,            \* fragments the upstream's stream holds at most
    nfrag,                 \* fragments consumed so far
    consumed,              \* the fragment consumed last: its kind, its annotations
    out,                   \* the events run_agent_stream has yielded
    raised,                \* the exception run_agent_stream re-raised, or {}
    accumulated_reasoning,
    last_reasoning_send,
    now,                   \* time.time() * 1000
    emitted_tool_starts,
    emitted_tool_ends,
    call_id_to_name,
    detected_hosted,
    pending_images,        \* the ContextVar value seen by the turn
    fallback_images,       \* tools._fallback_images
    nimg,                  \* images stored so far
    assistant_content,     \* generate's accumulated text
    emitted_image_platforms,
    sse,                   \* the events generate has yielded to the client
    ev_start,              \* identities for which start evidence was consumed
    ev_result,             \* identities for which result evidence was consumed
    ev_tools,              \* canonical hosted tools for which evidence was consumed
    run_faults,            \* is_retryable_error of each fault agent.run raised
    snapshots,             \* the reasoning buffer after each reasoning fragment
    sent_at,               \* the clock reading of the last ReasoningUpdate sent while streaming
    drained,               \* what pop_pending_images returned to the turn
    turn_pc,               \* concurrent turns: where each turn stands
    turn_attempt,          \* concurrent turns: each turn's retry attempt
    turn_cv,               \* concurrent turns: _pending_images in each turn's context
    turn_put,              \* the images each turn's own generate_image calls stored
    turn_rets,             \* what each pop_pending_images call returned to the turn
    turn_pre,              \* the stores each turn's last pop_pending_images found
    clean,                 \* no image was stored since the turn's last pop
    nput,                  \* images stored so far by the concurrent turns
    store_expect,          \* image store: the last artifact put per key since init or drain
    store_last,            \* image store: the last operation, what it found and returned
    store_ops,             \* image store: operations so far
    db,                    \* database.py: _STATE, the container's items, _memory_store, the lists
    chat_turns,            \* api.py: the POST /api/chat each client has in flight or had last
    db_last,               \* the conversation endpoint call just answered, what it found and left
    nchats,                \* POST /api/chat requests so far
    chat_limit             \* POST /api/chat requests the clients send at most

trackerVars == <<emitted_tool_starts, emitted_tool_ends, call_id_to_name, detected_hosted>>

reasoningVars == <<accumulated_reasoning, last_reasoning_send, now, snapshots, sent_at>>

imageVars == <<pending_images, fallback_images, nimg, drained>>

evidenceVars == <<ev_start, ev_result, ev_tools, run_faults>>

apiVars == <<assistant_content, emitted_image_platforms, sse>>

turnVars == <<turn_pc, turn_attempt, turn_cv, turn_put, turn_rets, turn_pre, clean, nput>>

storeVars == <<store_expect, store_last, store_ops>>

\* the state of the components a turn of run_agent_stream does not touch
dbVars == <<db, chat_turns, db_last, nchats, chat_limit>>

auxVars == <<storeVars, dbVars>>

vars == <<pc, attempt, stream_len, nfrag, consumed, out, raised, trackerVars, reasoningVars, imageVars,
          evidenceVars, apiVars, turnVars, auxVars>>

\* an operation on the image store: the stores it found, what was expected
\* of it and what it returned
StoreOp(op, expect, cv, fb, ret) ==
    [op |-> op, expect |-> expect, cv |-> cv, fb |-> fb, ret |-> ret]

\* a call of a conversation endpoint: its answer, the store before and after
EndpointCall(op, id, status, pre, post) ==
    [op |-> op, id |-> id, status |-> status, pre |-> pre, post |-> post]

\* the fragment the stream loop is processing
Fragment(kind, anns) == [kind |-> kind, anns |-> anns]

\* the turns that run concurrently
Turns == {1, 2}

Tracker ==
    [starts |-> emitted_tool_starts, ends |-> emitted_tool_ends,
     names |-> call_id_to_name, detected |-> detected_hosted, evs |-> <<>>]

Api == [content |-> assistant_content, platforms |-> emitted_image_platforms, sse |-> sse]

\* the events evs are yielded by run_agent_stream and consumed by generate
Emit(evs) ==
    LET A == api_chunks(Api, evs)
    IN /\ out' = out \o evs
       /\ assistant_content' = A.content
       /\ emitted_image_platforms' = A.platforms
       /\ sse' = A.sse

\* a step of the tracker ends in state T
Commit(T) ==
    /\ emitted_tool_starts' = T.starts
    /\ emitted_tool_ends' = T.ends
    /\ call_id_to_name' = T.names
    /\ detected_hosted' = T.detected
    /\ Emit(T.evs)

\* the state after construction: a turn's stream holds at most n fragments,
\* the clients send at most c chat requests
InitWith(n, c) ==
    /\ stream_len = n
    /\ chat_limit = c
    /\ pc = "start"
    /\ attempt = 0
    /\ nfrag = 0
    /\ consumed = Fragment("", <<>>)
    /\ out = <<>>
    /\ raised = {}
    /\ accumulated_reasoning = <<>>
    /\ last_reasoning_send = 0
    /\ now = StartTimeMs
    /\ emitted_tool_starts = {}
    /\ emitted_tool_ends = {}
    /\ call_id_to_name = [x \in {} |-> ""]
    /\ detected_hosted = {}
    /\ pending_images = CvNone
    /\ fallback_images = <<>>
    /\ nimg = 0
    /\ assistant_content = <<>>
    /\ emitted_image_platforms = {}
    /\ sse = <<>>
    /\ ev_start = {}
    /\ ev_result = {}
    /\ ev_tools = {}
    /\ run_faults = <<>>
    /\ snapshots = <<>>
    /\ sent_at = <<>>
    /\ drained = <<>>
    /\ turn_pc = [t \in Turns |-> "start"]
    /\ turn_attempt = [t \in Turns |-> 0]
    /\ turn_cv = [t \in Turns |-> CvNone]
    /\ turn_put = [t \in Turns |-> <<>>]
    /\ turn_rets = [t \in Turns |-> <<>>]
    /\ turn_pre = [t \in Turns |-> [cv |-> <<>>, fb |-> <<>>]]
    /\ clean = [t \in Turns |-> FALSE]
    /\ nput = 0
    /\ store_expect = <<>>
    /\ store_last = StoreOp("", <<>>, CvNone, <<>>, <<>>)
    /\ store_ops = 0
    /\ db = [container |-> "uninitialized",
             cosmos |-> [id \in ConvIds |-> NoDoc(<<>>)],
             memory |-> [id \in ConvIds |-> NoDoc(0)],
             heap |-> <<>>,
             now |-> 0]
    /\ chat_turns = [t \in Turns |-> ChatTurn("idle", 0, "", UserText("", 0), 0, <<>>)]
    /\ db_last = EndpointCall("", "", 0, db, db)
    /\ nchats = 0

\* the state at the start of a turn whose stream holds at most n fragments
InitOf(n) == InitWith(n, MaxChats)

Init == InitOf(MaxFragments)

\* --------------------------------------------------- run_agent_stream ----
\* try: init_image_store()
StartTurn ==
    /\ UNCHANGED <<turnVars, stream_len, auxVars>>
    /\ pc = "start"
    /\ LET st == init_image_store(pending_images, fallback_images)
       IN /\ pending_images' = st.cv
          /\ fallback_images' = st.fb
    /\ pc' = "run"
    /\ UNCHANGED <<attempt, nfrag, consumed, out, raised, trackerVars, reasoningVars, nimg, drained,
                   evidenceVars, apiVars>>

\* the except block: yield the Error event, re-raise; generate's except
\* block then yields its own error event
Fail(exc) ==
    /\ pc' = "raised"
    /\ raised' = exc
    /\ LET evs == agent_except(exc, accumulated_reasoning, fallback_images)
           A == api_chunks(Api, evs)
       IN /\ out' = out \o evs
          /\ assistant_content' = A.content
          /\ emitted_image_platforms' = A.platforms
          /\ sse' = generate_except(A.sse, exc)

\* stream = agent.run(query, stream=True) succeeds
RunSucceeds ==
    /\ UNCHANGED <<turnVars, stream_len, auxVars>>
    /\ pc = "run"
    /\ pc' = "stream"
    /\ UNCHANGED <<attempt, nfrag, consumed, out, raised, trackerVars, reasoningVars, imageVars,
                   evidenceVars, apiVars>>

\* agent.run raises a retryable error and attempts remain
RunRetries(exc) ==
    /\ UNCHANGED <<turnVars, stream_len, auxVars>>
    /\ pc = "run"
    /\ should_retry(exc, attempt)
    /\ Emit(<<create_tool_event("retry", "started", "")>>)
    /\ LET st == init_image_store(pending_images, fallback_images)
       IN /\ pending_images' = st.cv
          /\ fallback_images' = st.fb
    /\ attempt' = attempt + 1
    /\ run_faults' = Append(run_faults, is_retryable_error(exc))
    /\ UNCHANGED <<pc, nfrag, consumed, raised, trackerVars, reasoningVars, nimg, drained,
                   ev_start, ev_result, ev_tools>>

\* agent.run raises a non-retryable error, or the last attempt fails
RunFails(exc) ==
    /\ UNCHANGED <<turnVars, stream_len, auxVars>>
    /\ pc = "run"
    /\ ~should_retry(exc, attempt)
    /\ Fail(exc)
    /\ run_faults' = Append(run_faults, is_retryable_error(exc))
    /\ UNCHANGED <<attempt, nfrag, consumed, trackerVars, reasoningVars, imageVars,
                   ev_start, ev_result, ev_tools>>

\* the upstream raises while the stream is consumed
StreamFails(exc) ==
    /\ UNCHANGED <<turnVars, stream_len, auxVars>>
    /\ pc = "stream"
    /\ Fail(exc)
    /\ UNCHANGED <<attempt, nfrag, consumed, trackerVars, reasoningVars, imageVars, evidenceVars>>

Consuming(fragment) ==
    /\ UNCHANGED <<turnVars, stream_len, auxVars>>
    /\ pc = "stream"
    /\ nfrag < stream_len
    /\ nfrag' = nfrag + 1
    /\ consumed' = fragment
    /\ UNCHANGED <<pc, attempt, raised>>

\* a text_reasoning content item, dt ms after the previous clock reading
OnReasoning(text, dt) ==
    /\ Consuming(Fragment("text_reasoning", <<>>))
    /\ now' = now + dt
    /\ IF text # <<>>
       THEN LET acc == merge_reasoning(accumulated_reasoning, text)
            IN /\ accumulated_reasoning' = acc
               /\ snapshots' = Append(snapshots, acc)
               /\ IF should_send_reasoning(now', last_reasoning_send)
                  THEN /\ last_reasoning_send' = now'
                       /\ Emit(<<ReasoningUpdate(acc)>>)
                  ELSE /\ UNCHANGED last_reasoning_send
                       /\ Emit(<<>>)
               /\ sent_at' = IF Len(out') > Len(out) THEN <<now'>> ELSE sent_at
       ELSE /\ UNCHANGED <<accumulated_reasoning, last_reasoning_send, snapshots, sent_at>>
            /\ Emit(<<>>)
    /\ UNCHANGED <<trackerVars, imageVars, evidenceVars>>

\* a function_call content item
OnFunctionCall(name, call_id) ==
    /\ Consuming(Fragment("function_call", <<>>))
    /\ Commit(function_call(Tracker, name, call_id))
    /\ ev_start' = ev_start \cup {Or(call_id, Or(name, "unknown_tool"))}
    /\ UNCHANGED <<ev_result, ev_tools, run_faults, reasoningVars, imageVars>>

\* a function_result content item
OnFunctionResult(name, call_id) ==
    /\ Consuming(Fragment("function_result", <<>>))
    /\ Commit(function_result(Tracker, name, call_id))
    /\ ev_result' = ev_result \cup ({Or(call_id, name)} \ {""})
    /\ UNCHANGED <<ev_start, ev_tools, run_faults, reasoningVars, imageVars>>

\* a hosted-tool content item
OnHostedContent(ct, id, call_id) ==
    /\ Consuming(Fragment("hosted", <<>>))
    /\ Commit(hosted_content(Tracker, ct, id, call_id))
    /\ ev_start' = ev_start \cup {Or(id, Or(call_id, HostedToolOf(ct)))}
    /\ ev_tools' = ev_tools \cup {HostedToolOf(ct)}
    /\ UNCHANGED <<ev_result, run_faults, reasoningVars, imageVars>>

\* the canonical tools the annotations anns cite
CitedTools(anns) ==
    (IF \E i \in 1..Len(anns) : Contains(anns[i], "url_citation") THEN {"web_search"} ELSE {})
    \cup (IF \E i \in 1..Len(anns) : Contains(anns[i], "file_citation") THEN {"file_search"} ELSE {})

\* a text content item; an empty text falls through to the unknown branch
OnText(text, anns) ==
    /\ Consuming(Fragment("text", anns))
    /\ IF text # <<>>
       THEN Commit(text_content(Tracker, text, anns))
       ELSE Commit(Tracker)
    /\ ev_tools' = ev_tools \cup CitedTools(anns)
    /\ UNCHANGED <<reasoningVars, imageVars, ev_start, ev_result, run_faults>>

\* a usage content item whose raw representation holds the Response
OnUsage(items) ==
    /\ Consuming(Fragment("usage", <<>>))
    /\ Commit(usage_scan(Tracker, items))
    /\ LET ids == {Or(items[i].id, FirstPattern(items[i].type, {})) :
                      i \in {j \in 1..Len(items) : FirstPattern(items[j].type, {}) # ""}}
       IN /\ ev_start' = ev_start \cup ids
          /\ ev_result' = ev_result \cup ids
    /\ ev_tools' = ev_tools \cup ({FirstPattern(items[i].type, {}) : i \in 1..Len(items)} \ {""})
    /\ UNCHANGED <<run_faults, reasoningVars, imageVars>>

\* the end of an update: raw-event detection, then the update.text fallback
\* of an update without contents
OnRawEvent(raw, text) ==
    /\ Consuming(Fragment("raw", <<>>))
    /\ LET T == raw_detect(Tracker, raw)
       IN Commit(IF text # <<>> THEN Yield(T, TextChunk(text)) ELSE T)
    /\ LET tool == FirstPattern(raw.type, {})
           nested == IF raw.item_id = "" /\ raw.item # NoItem THEN raw.item.id ELSE raw.item_id
           ids1 == IF tool = "" THEN {} ELSE {Or(nested, tool)}
           done1 == Contains(raw.type, "completed") \/ Contains(raw.type, "done")
           itool == IF Contains(raw.type, "output_item") /\ raw.item # NoItem
                    THEN FirstPattern(raw.item.type, {}) ELSE ""
           ids2 == IF itool = "" THEN {} ELSE {Or(raw.item.id, itool)}
           done2 == Contains(raw.type, "done")
       IN /\ ev_start' = ev_start \cup (IF done1 THEN {} ELSE ids1) \cup (IF done2 THEN {} ELSE ids2)
          /\ ev_result' = ev_result \cup (IF done1 THEN ids1 ELSE {}) \cup (IF done2 THEN ids2 ELSE {})
          /\ ev_tools' = ev_tools \cup ({tool, itool} \ {""})
    /\ UNCHANGED <<run_faults, reasoningVars, imageVars>>

\* an update that is no AgentResponseUpdate: str(update) is yielded as text
OnOtherUpdate(text) ==
    /\ Consuming(Fragment("other", <<>>))
    /\ Emit(IF text # <<>> THEN <<TextChunk(text)>> ELSE <<>>)
    /\ UNCHANGED <<trackerVars, reasoningVars, imageVars, evidenceVars>>

\* the agent runs the generate_image tool while the stream is consumed
ToolGenerateImage(platform, b64, visible) ==
    /\ UNCHANGED <<turnVars, stream_len, auxVars>>
    /\ pc = "stream"
    /\ nimg < MaxImages
    /\ nimg' = nimg + 1
    /\ LET st == store_image(pending_images, fallback_images, visible, platform, b64)
       IN /\ pending_images' = st.cv
          /\ fallback_images' = st.fb
    /\ UNCHANGED <<pc, attempt, nfrag, consumed, out, raised, trackerVars, reasoningVars, drained,
                   evidenceVars, apiVars>>

\* the post-stream part with the final reasoning sent through the throttle
post_stream_throttled(T, has_response, items, images) ==
    LET T1 == IF has_response THEN response_scan(T, items) ELSE T
        T2 == IF accumulated_reasoning # <<>> /\ should_send_reasoning(now, last_reasoning_send)
              THEN Yield(T1, ReasoningUpdate(accumulated_reasoning)) ELSE T1
    IN [T2 EXCEPT !.evs = @ \o image_events(images)]

\* the post-stream part with the final reasoning sent before the response
\* scan
post_stream_reasoning_first(T, has_response, items, images) ==
    LET T1 == IF accumulated_reasoning # <<>>
              THEN Yield(T, ReasoningUpdate(accumulated_reasoning)) ELSE T
        T2 == IF has_response THEN response_scan(T1, items) ELSE T1
    IN [T2 EXCEPT !.evs = @ \o image_events(images)]

\* the events of the post-stream part of run_agent_stream: response scan,
\* final reasoning, image drain
post_stream(T, has_response, items, images) ==
    LET T1 == IF has_response THEN response_scan(T, items) ELSE T
        T2 == IF accumulated_reasoning # <<>>
              THEN Yield(T1, ReasoningUpdate(accumulated_reasoning)) ELSE T1
    IN [T2 EXCEPT !.evs = @ \o image_events(images)]

\* the stream is exhausted: post-stream part of run_agent_stream
EndOfStream(has_response, items) ==
    /\ UNCHANGED <<turnVars, stream_len, auxVars>>
    /\ pc = "stream"
    /\ LET popped == pop_pending_images(pending_images, fallback_images)
       IN /\ Commit(post_stream(Tracker, has_response, items, popped.ret))
          /\ pending_images' = popped.cv
          /\ fallback_images' = popped.fb
          /\ drained' = popped.ret
    /\ pc' = "returned"
    /\ UNCHANGED <<attempt, nfrag, consumed, raised, reasoningVars, nimg, evidenceVars>>

\* ------------------------------------------- generate, after the stream ----
\* sorted(missing_platforms)
SortedPlatforms == <<"instagram", "linkedin">>

RECURSIVE image_fallback(_, _, _, _, _)
\* the image fallback loop over SortedPlatforms[i..]: S holds the store
\* (cv, fb), generate's emitted platforms and the events yielded; prompts
\* are the platforms _extract_image_prompts finds a prompt for, gen[p] is
\* the image generate_image obtains for p ("" when it fails)
image_fallback(S, i, missing, prompts, gen) ==
    IF i > Len(SortedPlatforms) THEN S
    ELSE LET platform == SortedPlatforms[i]
         IN IF platform \notin missing \/ platform \notin prompts
            THEN image_fallback(S, i + 1, missing, prompts, gen)
            ELSE LET put == IF gen[platform] # ""
                            THEN store_image(S.cv, S.fb, TRUE, platform, gen[platform])
                            ELSE [cv |-> S.cv, fb |-> S.fb]
                     popped == pop_pending_images(put.cv, put.fb)
                     image_b64 == DictGet(popped.ret, platform, "")
                     S1 == [S EXCEPT !.cv = popped.cv, !.fb = popped.fb]
                     S2 == IF image_b64 # ""
                           THEN [S1 EXCEPT !.platforms = @ \cup {platform},
                                           !.sse = Append(@, SseEvent("image", platform, <<image_b64>>))]
                           ELSE S1
                 IN image_fallback(S2, i + 1, missing, prompts, gen)

\* run_agent_stream returned: save, image fallback, safety event, done
ApiFinish(req_platforms, prompts, gen) ==
    /\ UNCHANGED <<turnVars, stream_len, auxVars>>
    /\ pc = "returned"
    /\ LET missing == req_platforms \ emitted_image_platforms
           S0 == [cv |-> pending_images, fb |-> fallback_images,
                  platforms |-> emitted_image_platforms, sse |-> sse]
           S == IF assistant_content # <<>> /\ missing # {}
                THEN image_fallback(S0, 1, missing, prompts, gen)
                ELSE S0
       IN /\ pending_images' = S.cv
          /\ fallback_images' = S.fb
          /\ emitted_image_platforms' = S.platforms
          /\ sse' = S.sse \o <<SseEvent("safety", "", <<>>), SseEvent("done", "", <<>>)>>
    /\ pc' = "done"
    /\ UNCHANGED <<attempt, nfrag, consumed, out, raised, trackerVars, reasoningVars, nimg, drained,
                   evidenceVars, assistant_content>>

\* run_agent_stream returned and save_conversation raises an exception it
\* does not handle itself: generate's except block yields the error event
SaveFails(exc) ==
    /\ UNCHANGED <<turnVars, stream_len, auxVars>>
    /\ pc = "returned"
    /\ assistant_content # <<>>
    /\ sse' = generate_except(sse, exc)
    /\ pc' = "failed"
    /\ UNCHANGED <<attempt, nfrag, consumed, out, raised, trackerVars, reasoningVars, imageVars,
                   evidenceVars, assistant_content, emitted_image_platforms>>

\* ---------------------------------------------------- concurrent turns ----
\* The image-store steps of turns whose coroutines interleave at await
\* points.  Each turn runs in its own context (turn_cv); _fallback_images is
\* the module global.
mainVars == <<pc, attempt, stream_len, nfrag, consumed, out, raised, trackerVars, reasoningVars,
              pending_images, nimg, drained, evidenceVars, apiVars, auxVars>>

\* run_agent_stream: init_image_store() at the start of the turn
TurnStart(t) ==
    /\ turn_pc[t] = "start"
    /\ LET st == init_image_store(turn_cv[t], fallback_images)
       IN /\ turn_cv' = [turn_cv EXCEPT ![t] = st.cv]
          /\ fallback_images' = st.fb
    /\ turn_put' = [turn_put EXCEPT ![t] = <<>>]
    /\ turn_pc' = [turn_pc EXCEPT ![t] = "run"]
    /\ UNCHANGED <<mainVars, turn_attempt, turn_rets, turn_pre, clean, nput>>

\* run_agent_stream: agent.run failed with a retryable error; after the
\* sleep, init_image_store() and the next attempt
TurnRetry(t) ==
    /\ turn_pc[t] = "run"
    /\ turn_attempt[t] < MAX_RETRIES
    /\ turn_attempt' = [turn_attempt EXCEPT ![t] = @ + 1]
    /\ LET st == init_image_store(turn_cv[t], fallback_images)
       IN /\ turn_cv' = [turn_cv EXCEPT ![t] = st.cv]
          /\ fallback_images' = st.fb
    /\ turn_put' = [turn_put EXCEPT ![t] = <<>>]
    /\ UNCHANGED <<mainVars, turn_pc, turn_rets, turn_pre, clean, nput>>

\* run_agent_stream: agent.run succeeded, the stream is consumed
TurnRun(t) ==
    /\ turn_pc[t] = "run"
    /\ turn_pc' = [turn_pc EXCEPT ![t] = "stream"]
    /\ UNCHANGED <<mainVars, fallback_images, turn_attempt, turn_cv, turn_put, turn_rets,
                   turn_pre, clean, nput>>

\* the turn's agent runs generate_image, which stores its image
TurnGenerateImage(t, platform, b64, visible) ==
    /\ turn_pc[t] = "stream"
    /\ nput < MaxPuts
    /\ nput' = nput + 1
    /\ LET st == store_image(turn_cv[t], fallback_images, visible, platform, b64)
       IN /\ turn_cv' = [turn_cv EXCEPT ![t] = st.cv]
          /\ fallback_images' = st.fb
    /\ turn_put' = [turn_put EXCEPT ![t] = DictSet(@, platform, b64)]
    /\ clean' = [u \in Turns |-> FALSE]
    /\ UNCHANGED <<mainVars, turn_pc, turn_attempt, turn_rets, turn_pre>>

\* run_agent_stream: the stream is exhausted, pop_pending_images() and one
\* image marker per entry returned
TurnDrain(t) ==
    /\ turn_pc[t] = "stream"
    /\ LET popped == pop_pending_images(turn_cv[t], fallback_images)
       IN /\ turn_cv' = [turn_cv EXCEPT ![t] = popped.cv]
          /\ fallback_images' = popped.fb
          /\ turn_rets' = [turn_rets EXCEPT ![t] = Append(@, popped.ret)]
    /\ turn_pre' = [turn_pre EXCEPT ![t] = [cv |-> turn_cv[t].d, fb |-> fallback_images]]
    /\ clean' = [clean EXCEPT ![t] = TRUE]
    /\ turn_pc' = [turn_pc EXCEPT ![t] = "returned"]
    /\ UNCHANGED <<mainVars, turn_attempt, turn_put, nput>>

\* generate: the image fallback for one missing platform: generate_image
\* (b64 = "" when it fails), then pop_pending_images() with no await between
TurnFallback(t, platform, b64) ==
    /\ turn_pc[t] = "returned"
    /\ b64 # "" => nput < MaxPuts
    /\ nput' = IF b64 # "" THEN nput + 1 ELSE nput
    /\ LET put == IF b64 # ""
                  THEN store_image(turn_cv[t], fallback_images, TRUE, platform, b64)
                  ELSE [cv |-> turn_cv[t], fb |-> fallback_images]
           popped == pop_pending_images(put.cv, put.fb)
       IN /\ turn_cv' = [turn_cv EXCEPT ![t] = popped.cv]
          /\ fallback_images' = popped.fb
          /\ turn_rets' = [turn_rets EXCEPT ![t] = Append(@, popped.ret)]
          /\ turn_pre' = [turn_pre EXCEPT ![t] = [cv |-> put.cv.d, fb |-> put.fb]]
    /\ turn_put' = [turn_put EXCEPT ![t] = IF b64 # "" THEN <<<<platform, b64>>>> ELSE <<>>]
    /\ clean' = [u \in Turns |-> u = t]
    /\ turn_pc' = [turn_pc EXCEPT ![t] = "done"]
    /\ UNCHANGED <<mainVars, turn_attempt>>

NextImages ==
    \/ \E t \in Turns : TurnStart(t)
    \/ \E t \in Turns : TurnRetry(t)
    \/ \E t \in Turns : TurnRun(t)
    \/ \E t \in Turns, platform \in Platforms, b64 \in ImageData, visible \in BOOLEAN :
          TurnGenerateImage(t, platform, b64, visible)
    \/ \E t \in Turns : TurnDrain(t)
    \/ \E t \in Turns, platform \in Platforms, b64 \in ImageData \cup {""} :
          TurnFallback(t, platform, b64)

SpecImages == Init /\ [][NextImages]_vars

\* ------------------------------------------------ the image store ----
\* One context's operations on the image store of tools.py, in any order.
storeFrame == <<pc, attempt, stream_len, nfrag, consumed, out, raised, trackerVars, reasoningVars,
                nimg, drained, evidenceVars, apiVars, turnVars, dbVars>>

\* init_image_store()
StoreInit ==
    /\ store_ops < MaxStoreOps
    /\ store_ops' = store_ops + 1
    /\ LET st == init_image_store(pending_images, fallback_images)
       IN /\ pending_images' = st.cv
          /\ fallback_images' = st.fb
    /\ store_expect' = <<>>
    /\ store_last' = StoreOp("init", store_expect, pending_images, fallback_images, <<>>)
    /\ UNCHANGED storeFrame

\* generate_image stores the artifact of one platform
StorePut(platform, b64, visible) ==
    /\ store_ops < MaxStoreOps
    /\ store_ops' = store_ops + 1
    /\ LET st == store_image(pending_images, fallback_images, visible, platform, b64)
       IN /\ pending_images' = st.cv
          /\ fallback_images' = st.fb
    /\ store_expect' = DictSet(store_expect, platform, b64)
    /\ store_last' = StoreOp("put", store_expect, pending_images, fallback_images, <<>>)
    /\ UNCHANGED storeFrame

\* pop_pending_images()
StoreDrain ==
    /\ store_ops < MaxStoreOps
    /\ store_ops' = store_ops + 1
    /\ LET st == pop_pending_images(pending_images, fallback_images)
       IN /\ pending_images' = st.cv
          /\ fallback_images' = st.fb
          /\ store_last' = StoreOp("drain", store_expect, pending_images, fallback_images, st.ret)
    /\ store_expect' = <<>>
    /\ UNCHANGED storeFrame

NextStore ==
    \/ StoreInit
    \/ \E platform \in Platforms, b64 \in ImageData, visible \in BOOLEAN :
          StorePut(platform, b64, visible)
    \/ StoreDrain

SpecStore == Init /\ [][NextStore]_vars

\* ------------------------------------------- the conversation store ----
\* The requests of the clients on the chat and conversation endpoints; the
\* agent's part of a turn is its outcome: the text it produced, or a fault.
dbFrame == <<pc, attempt, stream_len, nfrag, consumed, out, raised, trackerVars, reasoningVars,
             imageVars, evidenceVars, apiVars, turnVars, storeVars>>

UserTexts ==
    {UserText("hi", n) : n \in {MESSAGE_MIN_LENGTH - 1, MESSAGE_MAX_LENGTH, MESSAGE_MAX_LENGTH + 1}}

ChatBodies ==
    {Body(kind, FALSE, UserText("", 0), "") : kind \in {"garbage", "array"}}
    \cup {Body("object", FALSE, UserText("", 0), id) : id \in ConvIds}
    \cup {Body("object", TRUE, m, id) : m \in UserTexts, id \in ConvIds \cup {""}}

\* what is wrong with a request body, "" if nothing
RequestDefect(body) ==
    IF body.kind = "garbage" THEN "not JSON"
    ELSE IF body.kind # "object" THEN "not an object"
    ELSE IF ~body.has_message THEN "message missing"
    ELSE IF body.message.len = 0 THEN "message empty"
    ELSE IF body.message.len > MESSAGE_MAX_LENGTH THEN "message too long"
    ELSE ""

\* what shield_prompt does: it finds no attack, finds one, or raises
ShieldOutcomes == {"clean", "attack", "raises"}

\* check_prompt_shield(): the result's safe and attack_detected
check_prompt_shield(is_configured, outcome) ==
    IF ~is_configured THEN [safe |-> TRUE, attack_detected |-> FALSE]
    ELSE IF outcome = "raises" THEN [safe |-> FALSE, attack_detected |-> FALSE]
    ELSE [safe |-> outcome # "attack", attack_detected |-> outcome = "attack"]

ShieldResults ==
    {check_prompt_shield(is_configured, outcome) : is_configured \in BOOLEAN, outcome \in ShieldOutcomes}

AssistantTexts == {"", "ok"}

\* the environment of the process does not change
Environment(configured) ==
    db.container = "uninitialized" \/ configured = (db.container = "cosmos")

\* the conversation ids some client or store knows
KnownIds ==
    StoredIds(db.cosmos) \cup StoredIds(db.memory) \cup {chat_turns[t].thread_id : t \in Turns}

\* POST /api/chat up to the response; uuid is what uuid4 would produce, read
\* only where the body names no thread
PostChat(t, configured, body, uuid, shield, failing) ==
    /\ Environment(configured)
    /\ nchats < chat_limit
    /\ chat_turns[t].pc # "streaming"
    /\ IF ValidChatRequest(body) /\ body.thread_id = "" THEN uuid \notin KnownIds ELSE uuid = "c1"
    /\ nchats' = nchats + 1
    /\ LET R == chat(db, configured, body, uuid, shield, failing)
       IN /\ db' = R.D
          /\ chat_turns' = [chat_turns EXCEPT ![t] =
                               [R.turn EXCEPT !.defect = RequestDefect(body),
                                              !.touched = (R.D # db)]]
          /\ db_last' = EndpointCall("", "", 0, R.D, R.D)
    /\ UNCHANGED <<chat_limit, dbFrame>>

\* the StreamingResponse of a turn, consumed to its end
StreamChat(t, configured, text, agent_fails, failing) ==
    /\ Environment(configured)
    /\ chat_turns[t].pc = "streaming"
    /\ LET R == generate(db, configured, chat_turns[t], text, agent_fails, failing)
       IN /\ db' = R.D
          /\ chat_turns' = [chat_turns EXCEPT ![t] = R.turn]
          /\ db_last' = EndpointCall("", "", 0, R.D, R.D)
    /\ UNCHANGED <<nchats, chat_limit, dbFrame>>

\* GET /api/conversations/{conversation_id}
GetConversation(configured, id, failing) ==
    /\ Environment(configured)
    /\ LET G == get_conversation(db, configured, id, failing)
           status == IF G.raised THEN 500 ELSE IF G.found THEN 200 ELSE 404
       IN /\ db' = G.D
          /\ db_last' = EndpointCall("get", id, status, db, G.D)
    /\ UNCHANGED <<chat_turns, nchats, chat_limit, dbFrame>>

\* DELETE /api/conversations/{conversation_id}
DeleteConversation(configured, id, failing) ==
    /\ Environment(configured)
    /\ LET R == delete_conversation(db, configured, id, failing)
       IN /\ db' = R.D
          /\ db_last' = EndpointCall("delete", id, IF R.ok THEN 200 ELSE 404, db, R.D)
    /\ UNCHANGED <<chat_turns, nchats, chat_limit, dbFrame>>

\* GET /api/conversations
ListConversations(configured, failing) ==
    /\ Environment(configured)
    /\ LET R == list_conversations(db, configured, failing)
       IN /\ db' = R.D
          /\ db_last' = EndpointCall("list", "", 200, db, R.D)
    /\ UNCHANGED <<chat_turns, nchats, chat_limit, dbFrame>>

\* the failures in F as far as they concern the calls an operation makes
Failures(F, calls) == {failing \cap calls : failing \in F}

\* the requests; F holds the sets of container calls that may raise
\* CosmosHttpResponseError during one operation
Requests(F) ==
    \/ \E t \in Turns, configured \in BOOLEAN, body \in ChatBodies, uuid \in ConvIds,
          shield \in ShieldResults, failing \in Failures(F, {"read_item"}) :
          PostChat(t, configured, body, uuid, shield, failing)
    \/ \E t \in Turns, configured \in BOOLEAN, text \in AssistantTexts, agent_fails \in BOOLEAN,
          failing \in Failures(F, {"read_item", "upsert_item"}) :
          StreamChat(t, configured, text, agent_fails, failing)
    \/ \E configured \in BOOLEAN, id \in ConvIds, failing \in Failures(F, {"read_item"}) :
          GetConversation(configured, id, failing)
    \/ \E configured \in BOOLEAN, id \in ConvIds, failing \in Failures(F, {"delete_item"}) :
          DeleteConversation(configured, id, failing)
    \/ \E configured \in BOOLEAN, failing \in Failures(F, {"query_items"}) :
          ListConversations(configured, failing)

\* the chat turns of the clients, the store answering every call
ChatTurns ==
    \/ \E t \in Turns, configured \in BOOLEAN, body \in ChatBodies, uuid \in ConvIds,
          shield \in ShieldResults :
          PostChat(t, configured, body, uuid, shield, {})
    \/ \E t \in Turns, configured \in BOOLEAN, text \in AssistantTexts, agent_fails \in BOOLEAN :
          StreamChat(t, configured, text, agent_fails, {})

InitTurns == InitWith(MaxFragments, MaxThreadChats)

SpecTurns == InitTurns /\ [][ChatTurns]_vars

\* the store answers every call
NextConversations == Requests({{}})

SpecConversations == Init /\ [][NextConversations]_vars

\* the container's calls may fail
NextPersistence == Requests({{}} \cup {{call} : call \in ContainerCalls})

SpecPersistence == Init /\ [][NextPersistence]_vars

\* ---------------------------------------------------- specifications ----
\* The upstream of a turn and the environment of generate, by the kinds of
\* input they produce.
Initiation ==
    \/ StartTurn
    \/ RunSucceeds

InitiationFaults ==
    \/ \E exc \in FaultTexts : RunRetries(exc)
    \/ \E exc \in FaultTexts : RunFails(exc)

\* faults of a consumed stream: one transient for agent.py and api.py, one
\* transient for agent.py only, one transient for neither
StreamFaultTexts == {{"429"}, {"502"}, {"invalid api key"}}

StreamFaults == \E exc \in StreamFaultTexts : StreamFails(exc)

ReasoningFragments == \E text \in ReasoningTexts, dt \in Delays : OnReasoning(text, dt)

FunctionFragments ==
    \/ \E name \in ToolNames \cup {""}, call_id \in CallIds \cup {""} : OnFunctionCall(name, call_id)
    \/ \E name \in ToolNames \cup {""}, call_id \in CallIds \cup {""} : OnFunctionResult(name, call_id)

TextFragments ==
    \/ \E text \in Texts, anns \in AnnotationLists : OnText(text, anns)
    \/ \E text \in Texts : OnOtherUpdate(text)

HostedFragments ==
    \/ \E ct \in HostedContentTypes, id \in ItemIds \cup {""}, call_id \in CallIds \cup {""} :
          OnHostedContent(ct, id, call_id)
    \/ \E items \in OutputLists : OnUsage(items)
    \/ \E raw \in RawEvents, text \in Texts : OnRawEvent(raw, text)

ImageTools ==
    \E platform \in Platforms, b64 \in ImageData, visible \in BOOLEAN :
        ToolGenerateImage(platform, b64, visible)

Exhaustion ==
    \E has_response \in BOOLEAN, items \in OutputLists :
        EndOfStream(has_response, items)

Finish ==
    \E req \in SUBSET Platforms, prompts \in SUBSET Platforms,
       gen \in [Platforms -> ImageData \cup {""}] : ApiFinish(req, prompts, gen)

PlainExhaustion == EndOfStream(TRUE, <<>>)

UnannotatedText == \E text \in Texts \ {<<>>} : OnText(text, <<>>)

\* reasoning of a turn observed for its life cycle: a fragment inside or
\* outside the throttle interval
BriefReasoning ==
    \E c \in ReasoningAlphabet, dt \in {0, REASONING_THROTTLE_MS} : OnReasoning(<<c>>, dt)

OneImageTool == \E platform \in Platforms : ToolGenerateImage(platform, "img1", TRUE)

NamedFunctionFragments ==
    \/ \E call_id \in CallIds : OnFunctionCall("search", call_id)
    \/ \E call_id \in CallIds : OnFunctionResult("", call_id)

\* the fallback generate_image fails ("") or succeeds for every platform
BriefFinish ==
    \E req \in SUBSET Platforms, prompts \in {{}, Platforms}, b64 \in {"", "img2"} :
        ApiFinish(req, prompts, [p \in Platforms |-> b64])

PersistenceFaults == \E exc \in StreamFaultTexts : SaveFails(exc)

\* One turn of POST /api/chat from initiation to done or error: retries,
\* faults, reasoning, function tools, text, images.
Next ==
    \/ Initiation
    \/ InitiationFaults
    \/ StreamFaults
    \/ BriefReasoning
    \/ NamedFunctionFragments
    \/ UnannotatedText
    \/ OneImageTool
    \/ PlainExhaustion
    \/ BriefFinish
    \/ PersistenceFaults

Spec == Init /\ [][Next]_vars

\* texts of the fragments of a turn observed for its tool events only
PlainTexts == {<<"a">>}

CitedText == \E text \in PlainTexts, anns \in AnnotationLists : OnText(text, anns)

HostedEvidence ==
    \/ \E ct \in HostedContentTypes, id \in ItemIds \cup {""}, call_id \in CallIds \cup {""} :
          OnHostedContent(ct, id, call_id)
    \/ \E items \in OutputLists : OnUsage(items)
    \/ \E raw \in RawEvents : OnRawEvent(raw, <<>>)

\* One turn whose upstream carries every kind of tool evidence.
NextTools ==
    \/ Initiation
    \/ FunctionFragments
    \/ CitedText
    \/ HostedEvidence
    \/ PlainExhaustion

InitTools == InitOf(MaxToolFragments)

SpecTools == InitTools /\ [][NextTools]_vars

\* One turn whose upstream carries function calls and results, with and
\* without name and correlation id.
NextFunctions ==
    \/ Initiation
    \/ FunctionFragments
    \/ PlainExhaustion

SpecFunctions == Init /\ [][NextFunctions]_vars

\* reasoning fragments arriving inside or outside the throttle interval
PacedReasoning ==
    \E text \in ReasoningTexts, dt \in {0, REASONING_THROTTLE_MS} : OnReasoning(text, dt)

PlainText == \E text \in PlainTexts : OnText(text, <<>>)

\* One turn whose upstream carries reasoning and text.
NextReasoning ==
    \/ Initiation
    \/ PacedReasoning
    \/ PlainText
    \/ PlainExhaustion

SpecReasoning == Init /\ [][NextReasoning]_vars

\* One turn whose upstream carries reasoning fragments, with and without
\* text, at the readings of an adjustable wall clock.
NextThrottle ==
    \/ Initiation
    \/ \E text \in {<<>>} \cup {<<c>> : c \in ReasoningAlphabet}, dt \in ClockSteps :
          OnReasoning(text, dt)
    \/ PlainExhaustion

SpecThrottle == Init /\ [][NextThrottle]_vars

\* One turn that ends without fault: reasoning, hosted tools seen in usage
\* or only in the final response, stored images, the end of generate.
NextFinalization ==
    \/ Initiation
    \/ BriefReasoning
    \/ \E items \in OutputLists : OnUsage(items)
    \/ OneImageTool
    \/ Exhaustion
    \/ BriefFinish

SpecFinalization == InitTools /\ [][NextFinalization]_vars

\* One turn whose usage envelopes hold several output items, after hosted
\* tools were or were not detected from citations and content items.
NextUsage ==
    \/ Initiation
    \/ \E ann_type \in AnnTypes \ {{}} : OnText(<<"a">>, <<ann_type>>)
    \/ \E id \in ItemIds \cup {""} : OnHostedContent("web_search_call", id, "")
    \/ \E items \in UsageLists : OnUsage(items)
    \/ PlainExhaustion

SpecUsage == InitTools /\ [][NextUsage]_vars

\* ------------------------------------------------------------- claims ----
\* the positions of out holding a tool event of the given status and identity
ToolEventsAt(events, status, id) ==
    {i \in 1..Len(events) :
        events[i].kind = "tool" /\ events[i].status = status /\ events[i].id = id}

\* the positions of events holding a tool event that names the given tool
ToolEventsOf(events, tool) ==
    {i \in 1..Len(events) : events[i].kind = "tool" /\ events[i].name = tool}

\* C1: once a turn has consumed start evidence and result evidence for an
\* identity (correlation id, else tool name), however often and in whatever
\* order, its output holds exactly one "started" and exactly one
\* "completed" tool event for that identity.
C1_ExactlyOneStartedAndCompleted ==
    pc = "returned" =>
        \A id \in ev_start \cap ev_result :
            /\ Cardinality(ToolEventsAt(out, "started", id)) = 1
            /\ Cardinality(ToolEventsAt(out, "completed", id)) = 1

\* C2: every "completed" tool event of the output is preceded in the
\* output by a "started" tool event of the same identity.
C2_StartedPrecedesCompleted ==
    \A i \in 1..Len(out) :
        (out[i].kind = "tool" /\ out[i].status = "completed") =>
            \E j \in 1..(i - 1) :
                out[j].kind = "tool" /\ out[j].status = "started" /\ out[j].id = out[i].id

\* the synthetic identity of a citation-inferred tool
AnnotationId(tool) == IF tool = "web_search" THEN "ws_annotation" ELSE "fs_annotation"

\* the events a step appended to out
NewEvents == SubSeq(out', Len(out) + 1, Len(out'))

\* C9 (as amended): when a text fragment cites a canonical tool
\* (url_citation -> web_search, file_citation -> file_search) for which the
\* turn has consumed no evidence before, the fragment's events are its
\* TextChunk followed by citation pairs only, among them exactly one
\* started event immediately followed by the completed event of that tool;
\* the pair comes directly after the TextChunk when the tool is the only
\* one the fragment cites, and after the other tool's pair at most
\* otherwise; when the tool's citation pair is already in the output, the
\* fragment emits no event of that tool.
C9_CitationInference ==
    [][\A text \in PlainTexts, anns \in AnnotationLists :
          (/\ nfrag' = nfrag + 1
           /\ consumed' = Fragment("text", anns)
           /\ OnText(text, anns)) =>
              /\ NewEvents[1] = TextChunk(text)
              /\ \A i \in 2..Len(NewEvents) :
                    NewEvents[i].kind = "tool"
                    /\ NewEvents[i].id \in {"ws_annotation", "fs_annotation"}
              /\ \A tool \in CitedTools(anns) :
                    /\ tool \notin ev_tools =>
                          /\ Cardinality(ToolEventsOf(NewEvents, tool)) = 2
                          /\ \E k \in 2..(Len(NewEvents) - 1) :
                                /\ NewEvents[k] = create_tool_event(tool, "started", AnnotationId(tool))
                                /\ NewEvents[k + 1] = create_tool_event(tool, "completed", AnnotationId(tool))
                          /\ CitedTools(anns) = {tool} =>
                                NewEvents = <<TextChunk(text),
                                              create_tool_event(tool, "started", AnnotationId(tool)),
                                              create_tool_event(tool, "completed", AnnotationId(tool))>>
                    /\ ToolEventsAt(out, "started", AnnotationId(tool)) # {} =>
                          ToolEventsOf(NewEvents, tool) = {}
      ]_vars

\* C9 as stated: the citation pair of every cited tool without earlier
\* evidence is emitted immediately after the fragment's TextChunk.
C9_PairImmediatelyAfterText ==
    [][\A text \in PlainTexts, anns \in AnnotationLists :
          (/\ nfrag' = nfrag + 1
           /\ consumed' = Fragment("text", anns)
           /\ OnText(text, anns)) =>
              \A tool \in CitedTools(anns) \ ev_tools :
                  /\ Len(NewEvents) >= 3
                  /\ NewEvents[1] = TextChunk(text)
                  /\ NewEvents[2] = create_tool_event(tool, "started", AnnotationId(tool))
                  /\ NewEvents[3] = create_tool_event(tool, "completed", AnnotationId(tool))
      ]_vars

\* C9 witness: a text fragment cited both tools with no earlier evidence,
\* and a later text fragment that cited them again emitted its text only
C9_Witness ==
    /\ nfrag = 2
    /\ ev_tools = {"web_search", "file_search"}
    /\ Len(out) = 6
    /\ out[1].kind = "text"
    /\ \A i \in 2..5 : out[i].kind = "tool" /\ out[i].id \in {"ws_annotation", "fs_annotation"}
    /\ Cardinality(ToolEventsOf(out, "web_search")) = 2
    /\ Cardinality(ToolEventsOf(out, "file_search")) = 2
    /\ out[6].kind = "text"

\* the positions of events holding an event of the given kind
EventsOfKind(events, kind) == {i \in 1..Len(events) : events[i].kind = kind}

\* C4: when the upstream raises, at initiation or while the stream is
\* consumed, run_agent_stream yields exactly one Error event after the
\* events it had yielded before (none of them retracted, nothing
\* synthesized from the reasoning buffer or the image store), re-raises the
\* exception, and yields nothing after; a turn that has not raised has
\* yielded no Error event.
C4_ErrorIsLastThenReraise ==
    [][/\ (pc # "raised" /\ pc' = "raised") =>
             /\ raised' \in FaultTexts
             /\ out' = Append(out, ErrorEvent(agent_user_message(raised')))
       /\ pc = "raised" => (pc' = "raised" /\ out' = out /\ raised' = raised)
       /\ pc' # "raised" => (raised' = {} /\ EventsOfKind(out', "error") = {})
      ]_vars

\* C4 witness: the upstream raised while reasoning was buffered but not yet
\* sent and an image was stored
C4_Witness ==
    /\ pc = "raised"
    /\ nfrag > 0
    /\ accumulated_reasoning # <<>>
    /\ \A i \in EventsOfKind(out, "reasoning") : out[i].text # accumulated_reasoning
    /\ fallback_images # <<>>
    /\ Len(out) > 1

\* C5: the SSE stream of a turn that has ended holds exactly one terminal
\* event, its last: done when the turn succeeded, error when it failed,
\* never both; a stream still open holds none.
C5_OneTerminalEvent ==
    LET terminal == EventsOfKind(sse, "done") \cup EventsOfKind(sse, "error")
    IN /\ pc = "done" => (terminal = {Len(sse)} /\ Last(sse).kind = "done")
       /\ pc \in {"raised", "failed"} => (terminal = {Len(sse)} /\ Last(sse).kind = "error")
       /\ pc \notin {"done", "raised", "failed"} => terminal = {}

\* C5 witness: a stream that delivered text and then failed
C5_Witness ==
    /\ pc = "raised"
    /\ nfrag > 0
    /\ EventsOfKind(sse, "text") # {}
    /\ Last(sse).kind = "error"

\* the retry events of the output
RetryEvents == {i \in 1..Len(out) : out[i].kind = "tool" /\ out[i].name = "retry"}

\* C6: agent.run is attempted at most MAX_RETRIES + 1 times; every fault
\* but the last was transient and was followed by one retry event and a
\* re-initialised image store; the number of retry events is the number of
\* attempts minus one; a fault that is not transient, or the fault of the
\* last attempt, propagates with no retry event.
C6_BoundedRetry ==
    LET failures == Len(run_faults)
        propagated == failures > attempt
    IN /\ failures <= MAX_RETRIES + 1
       /\ attempt <= MAX_RETRIES
       /\ Cardinality(RetryEvents) = attempt
       /\ \A i \in 1..attempt : run_faults[i]
       /\ failures \in {attempt, attempt + 1}
       /\ propagated => (pc = "raised" /\ nfrag = 0 /\ Last(out).kind = "error"
                            /\ Cardinality(EventsOfKind(out, "error")) = 1)
       /\ propagated => (~run_faults[failures] \/ failures = MAX_RETRIES + 1)
       /\ propagated => Len(out) = attempt + 1
       /\ pc = "run" => (pending_images = CvDict(<<>>) /\ fallback_images = <<>>)

\* C6 witness: the third attempt failed with a transient fault
C6_Witness ==
    /\ pc = "raised"
    /\ Len(run_faults) = MAX_RETRIES + 1
    /\ run_faults[MAX_RETRIES + 1]
    /\ Cardinality(RetryEvents) = MAX_RETRIES

\* C7: when the upstream is exhausted with a non-empty reasoning buffer,
\* the last ReasoningUpdate of the output carries the whole buffer.
C7_FinalFlush ==
    (pc = "returned" /\ accumulated_reasoning # <<>>) =>
        LET updates == EventsOfKind(out, "reasoning")
        IN /\ updates # {}
           /\ out[CHOOSE i \in updates : \A j \in updates : j <= i].text = accumulated_reasoning

\* C7 witness: the throttle suppressed the emission for the last reasoning
\* fragment, which changed the buffer
C7_Witness ==
    /\ pc = "returned"
    /\ Len(snapshots) = 2
    /\ snapshots[1] # snapshots[2]
    /\ Cardinality(EventsOfKind(out, "reasoning")) = 2

\* C8: the reasoning buffer never gets shorter: each snapshot is at least
\* as long as the one before.
C8_BufferNeverShrinks ==
    \A i \in 1..(Len(snapshots) - 1) : Len(snapshots[i]) <= Len(snapshots[i + 1])

\* C8 witness: a cumulative fragment replaced the buffer, then a duplicate
\* was ignored
C8_Witness ==
    /\ Len(snapshots) = 3
    /\ snapshots[1] = <<"a">>
    /\ snapshots[2] = <<"a", "b">>
    /\ snapshots[3] = snapshots[2]

\* a dict as the set of its entries
Entries(d) == {d[i] : i \in 1..Len(d)}

\* C3: what a turn's pop_pending_images returns at the end of its stream is
\* exactly what the turn's own generate_image calls stored, whatever a
\* concurrent turn does.
C3_TurnsIsolated ==
    \A t \in Turns :
        turn_pc[t] = "returned" => Entries(turn_rets[t][1]) = Entries(turn_put[t])

\* C10: every pop_pending_images returns the keys of both stores and
\* leaves the caller's context-scoped store and the fallback empty; a pop
\* that follows the caller's previous pop with no image stored in between
\* returns the empty mapping.
C10_DrainTwice ==
    [][\A t \in Turns :
          Len(turn_rets'[t]) > Len(turn_rets[t]) =>
              /\ turn_cv'[t] = CvDict(<<>>)
              /\ fallback_images' = <<>>
              /\ DictKeys(Last(turn_rets'[t])) = DictKeys(turn_pre'[t].cv) \cup DictKeys(turn_pre'[t].fb)
              /\ (clean[t] /\ nput' = nput) => Last(turn_rets'[t]) = <<>>
      ]_vars

\* C10 witness: a turn's first pop returned images, its second, with no
\* image stored in between, returned none
C10_Witness ==
    \E t \in Turns :
        /\ Len(turn_rets[t]) = 2
        /\ turn_rets[t][1] # <<>>
        /\ turn_rets[t][2] = <<>>
        /\ turn_put[t] = <<>>

\* C11: drain returns exactly the keys put since the last init or drain, each
\* with the artifact of the last put for that key; where the context-scoped
\* store and the process-wide fallback hold different artifacts for a key the
\* fallback's is returned; init leaves both stores empty.
C11_DrainReturnsLastPuts ==
    /\ store_last.op = "drain" =>
          /\ Entries(store_last.ret) = Entries(store_last.expect)
          /\ Len(store_last.ret) = Cardinality(DictKeys(store_last.ret))
          /\ \A k \in DictKeys(store_last.fb) : DictGet(store_last.ret, k, "") = DictGet(store_last.fb, k, "")
          /\ pending_images = CvDict(<<>>)
          /\ fallback_images = <<>>
    /\ store_last.op = "init" =>
          /\ pending_images = CvDict(<<>>)
          /\ fallback_images = <<>>

\* a drain that found a key put twice with different artifacts, the
\* context-scoped store holding the first and the fallback the second
C11_Witness ==
    /\ store_last.op = "drain"
    /\ \E k \in DictKeys(store_last.fb) :
          /\ ~store_last.cv.none
          /\ k \in DictKeys(store_last.cv.d)
          /\ DictGet(store_last.cv.d, k, "") # DictGet(store_last.fb, k, "")
          /\ DictGet(store_last.ret, k, "") = DictGet(store_last.fb, k, "")

\* C12: for each turn that completes with non-empty assistant text, the
\* message list handed to save_conversation is the list stored for the
\* thread before the turn, followed by the request's user message and the
\* assistant message of the accumulated text, and nothing else.
C12_HistoryPlusOneExchange ==
    \A t \in Turns :
        (chat_turns[t].pc = "done" /\ chat_turns[t].text # "") =>
            /\ chat_turns[t].saved
            /\ chat_turns[t].handed =
                   chat_turns[t].before
                   \o <<Message("user", chat_turns[t].message),
                        Message("assistant", chat_turns[t].text)>>

\* C13: a POST /api/chat whose body is not valid JSON or fails the schema
\* (message missing, empty or too long) is answered with 400; no stream is
\* opened, the agent is not invoked, and the conversation state is neither
\* read nor changed.
C13_InvalidBodyRejected ==
    \A t \in Turns :
        chat_turns[t].defect # "" =>
            /\ chat_turns[t].pc = "rejected"
            /\ chat_turns[t].status = 400
            /\ chat_turns[t].events = <<>>
            /\ ~chat_turns[t].invoked
            /\ ~chat_turns[t].looked
            /\ ~chat_turns[t].touched

\* a request with a message that is too long, rejected while a conversation
\* is stored
C13_Witness ==
    \E t \in Turns :
        /\ chat_turns[t].defect = "message too long"
        /\ chat_turns[t].status = 400
        /\ StoredIds(db.memory) \cup StoredIds(db.cosmos) # {}

\* the store get_conversation and delete_conversation work on
ConversationsOf(D, mode) == IF mode = "cosmos" THEN D.cosmos ELSE D.memory

\* C14: GET and DELETE of an id that is not stored answer not-found and
\* change nothing; DELETE of a stored id succeeds and leaves the id not
\* stored (so that a GET or a second DELETE of it is the first case), every
\* other stored conversation unchanged.
C14_NotFoundAndDelete ==
    LET pre == ConversationsOf(db_last.pre, db_last.post.container)
        post == ConversationsOf(db_last.post, db_last.post.container)
        same == /\ db_last.post.cosmos = db_last.pre.cosmos
                /\ db_last.post.memory = db_last.pre.memory
                /\ db_last.post.heap = db_last.pre.heap
    IN /\ (db_last.op \in {"get", "delete"} /\ ~pre[db_last.id].stored) =>
             (db_last.status = 404 /\ same)
       /\ (db_last.op = "delete" /\ pre[db_last.id].stored) =>
             /\ db_last.status = 200
             /\ ~post[db_last.id].stored
             /\ \A id \in ConvIds \ {db_last.id} : post[id] = pre[id]
             /\ db_last.post.heap = db_last.pre.heap
       /\ db_last.op # "" => db_last.post = db

\* a stored conversation was deleted while another one is stored
C14_Witness ==
    /\ db_last.op = "delete"
    /\ db_last.status = 200
    /\ \E id \in ConvIds \ {db_last.id} :
          ConversationsOf(db_last.post, db_last.post.container)[id].stored

\* C17: with the document store configured, a failing operation on it is
\* never surfaced: no conversation endpoint call and no chat request ends in
\* an unhandled exception, and a turn that reached its save ends with done.
C17_StoreFailuresNotSurfaced ==
    /\ db_last.status # 500
    /\ \A t \in Turns :
          /\ chat_turns[t].status # 500
          /\ chat_turns[t].saved =>
                /\ chat_turns[t].pc = "done"
                /\ Last(chat_turns[t].events) = "done"

\* C15: when a turn ends in a fault, the message of the final error event of
\* the SSE stream is the "service temporarily unavailable" message if and
\* only if the fault is classified transient (rate limit/429, 5xx, timeout,
\* "failed to complete the prompt"), and the generic message otherwise.
C15_TransientIffUnavailable ==
    pc = "raised" =>
        /\ Last(sse).kind = "error"
        /\ Last(sse).name = (IF is_retryable_error(raised) THEN MsgUnavailable ELSE MsgGeneric)

\* what the client has received once the turn, in its present state, ends
\* in the fault exc
DeliveredOnFault(exc) ==
    generate_except(api_chunks(Api, agent_except(exc, accumulated_reasoning, fallback_images)).sse,
                    exc)

\* the faults that end the turn if raised in its present state
FaultsEnding ==
    IF pc = "stream" THEN StreamFaultTexts
    ELSE IF pc = "run" THEN {exc \in FaultTexts : ~should_retry(exc, attempt)}
    ELSE {}

\* C16: the text of a fault is not sent to the client: two turns that differ
\* only in the text of the exception raised, the two texts classified alike
\* (both transient or both not), deliver the same sequence of events, and
\* every error message delivered is one of the two fixed messages.
C16_FaultTextNotDelivered ==
    /\ \A e1, e2 \in FaultsEnding :
          is_retryable_error(e1) = is_retryable_error(e2) =>
              DeliveredOnFault(e1) = DeliveredOnFault(e2)
    /\ \A i \in EventsOfKind(sse, "error") : sse[i].name \in {MsgUnavailable, MsgGeneric}

\* the reference merge: cumulative replace, else duplicate ignored, else
\* append, tried in that order
feed(buffer, fragment) ==
    IF IsPrefix(buffer, fragment) THEN fragment
    ELSE IF IsSuffix(fragment, buffer) THEN buffer
    ELSE buffer \o fragment

\* C18: for every buffer the turn can hold and every non-empty fragment over
\* the alphabet, the merge step of the text_reasoning branch gives what the
\* reference function feed gives.
C18_MergeEqualsFeed ==
    \A text \in ReasoningTexts \ {<<>>} :
        merge_reasoning(accumulated_reasoning, text) = feed(accumulated_reasoning, text)

\* a buffer built by two merges for which fragments of all three cases
\* exist: <<"a", "b">> replaces it, <<"b">> is ignored, <<"a">> is appended
C18_Witness ==
    /\ Len(snapshots) = 2
    /\ accumulated_reasoning = <<"a", "b">>
    /\ feed(accumulated_reasoning, <<"b">>) = accumulated_reasoning
    /\ feed(accumulated_reasoning, <<"a">>) = <<"a", "b", "a">>
    /\ merge_reasoning(<<"a">>, accumulated_reasoning) = accumulated_reasoning

\* C19: a function_result without correlation id is completion evidence for
\* the invocation identified by its tool name: when the start of that tool
\* was consumed without id, the result without id leaves the output with
\* one started and one completed event for the tool name as identity.
C19_ResultWithoutIdCompletes ==
    [][\A name \in ToolNames :
          (name \in ev_start /\ OnFunctionResult(name, "")) =>
              /\ Cardinality(ToolEventsAt(out', "started", name)) = 1
              /\ Cardinality(ToolEventsAt(out', "completed", name)) = 1]_vars

\* C20 as amended: the events a fragment causes are appended to the output
\* in the step that consumes it, before the next fragment is read; they are
\* at most one text or reasoning event and, for each tool identity the
\* fragment gives evidence of, at most one started and one completed event.
C20_EventsPerFragment ==
    [][nfrag' = nfrag + 1 =>
          LET new == NewEvents
              tools == {i \in 1..Len(new) : new[i].kind = "tool"}
          IN /\ IsPrefix(out, out')
             /\ Cardinality((1..Len(new)) \ tools) <= 1
             /\ \A i, j \in tools :
                   (new[i].id = new[j].id /\ new[i].status = new[j].status) => i = j
             /\ Len(new) <= 1 + 2 * Cardinality({new[i].id : i \in tools})]_vars

\* C20 as stated: a fragment causes at most two events
C20_AtMostTwoEvents == [][nfrag' = nfrag + 1 => Len(out') <= Len(out) + 2]_vars

\* the first fragment of a stream, a text citing a web page and a file,
\* caused five events
C20_Witness ==
    /\ nfrag = 1
    /\ consumed.kind = "text"
    /\ Len(out) = 5
    /\ ToolEventsAt(out, "completed", "ws_annotation") # {}
    /\ ToolEventsAt(out, "completed", "fs_annotation") # {}

\* the events new are n started+completed pairs, each of one identity and tool
PairsOnly(new, n) ==
    \A i \in 1..n :
        /\ new[2 * i - 1].kind = "tool" /\ new[2 * i - 1].status = "started"
        /\ new[2 * i].kind = "tool" /\ new[2 * i].status = "completed"
        /\ new[2 * i].id = new[2 * i - 1].id
        /\ new[2 * i].name = new[2 * i - 1].name

\* C21 as amended: when the stream is exhausted without fault, the events
\* of the finalization are, in this order, the started+completed pairs
\* synthesized from the final response, the final ReasoningUpdate with the
\* full buffer (if non-empty), one ImageReady per stored image; Done is the
\* last event of the SSE stream and no domain event follows the images.
C21_FinalizationOrder ==
    [][/\ (pc = "stream" /\ pc' = "returned") =>
             LET new == NewEvents
                 k == Cardinality({i \in 1..Len(new) : new[i].kind = "tool"})
                 r == IF accumulated_reasoning # <<>> THEN 1 ELSE 0
                 m == Len(drained')
             IN /\ Len(new) = k + r + m
                /\ k % 2 = 0
                /\ PairsOnly(SubSeq(new, 1, k), k \div 2)
                /\ r = 1 => new[k + 1] = ReasoningUpdate(accumulated_reasoning)
                /\ \A j \in 1..m : new[k + r + j] = ImageReady(drained'[j][1], drained'[j][2])
       /\ (pc = "returned" /\ pc' = "done") =>
             (out' = out /\ Last(sse').kind = "done")]_vars

\* C21 as stated: the final ReasoningUpdate precedes the pairs synthesized
\* from the final response
C21_ReasoningBeforePairs ==
    [][(pc = "stream" /\ pc' = "returned") =>
          LET new == NewEvents
              k == Cardinality({i \in 1..Len(new) : new[i].kind = "tool"})
              r == IF accumulated_reasoning # <<>> THEN 1 ELSE 0
          IN /\ r = 1 => new[1] = ReasoningUpdate(accumulated_reasoning)
             /\ \A i \in (r + 1)..(r + k) : new[i].kind = "tool"]_vars

\* a turn that ended with done after a finalization of all three kinds: a
\* pair for a tool seen only in the final response, the final reasoning, an
\* image
C21_Witness ==
    /\ pc = "done"
    /\ ev_tools = {}
    /\ Len(out) >= 4
    /\ out[Len(out) - 3].kind = "tool" /\ out[Len(out) - 3].status = "started"
    /\ out[Len(out) - 2].kind = "tool" /\ out[Len(out) - 2].status = "completed"
    /\ out[Len(out) - 1] = ReasoningUpdate(accumulated_reasoning)
    /\ out[Len(out)].kind = "image"
    /\ Last(sse).kind = "done"

\* C22: on a usage fragment, every output item of the envelope that
\* indicates a hosted tool not yet detected causes a started event
\* immediately followed by the completed event of that tool; the pairs
\* appear in the order of the items; an item whose identity already has
\* both events causes nothing.
C22_UsagePairsInOrder ==
    [][(nfrag' = nfrag + 1 /\ consumed'.kind = "usage") =>
          \A items \in UsageLists :
              OnUsage(items) =>
                  LET new == NewEvents
                      tool(i) == FirstPattern(items[i].type, {})
                      iid(i) == Or(items[i].id, tool(i))
                      hosted == {i \in 1..Len(items) : tool(i) # ""}
                      fresh == {i \in hosted :
                                   /\ tool(i) \notin detected_hosted
                                   /\ \A j \in hosted : j < i => tool(j) # tool(i)}
                      at(i) == {p \in 1..Len(new) :
                                   new[p] = create_tool_event(tool(i), "started", iid(i))}
                  IN /\ \A i \in fresh :
                           \E p \in at(i) :
                               /\ p < Len(new)
                               /\ new[p + 1] = create_tool_event(tool(i), "completed", iid(i))
                     /\ \A i, j \in fresh :
                           i < j => \A p \in at(i), q \in at(j) : p < q
                     /\ \A i \in hosted :
                           iid(i) \in emitted_tool_starts \cap emitted_tool_ends =>
                               \A p \in 1..Len(new) : new[p].id # iid(i)]_vars

\* the first fragment was a usage item whose envelope names two hosted tools:
\* two pairs in the order of the items
C22_Witness ==
    /\ nfrag = 1
    /\ consumed.kind = "usage"
    /\ Len(out) = 4
    /\ out[1].status = "started" /\ out[2].status = "completed" /\ out[2].id = out[1].id
    /\ out[3].status = "started" /\ out[4].status = "completed" /\ out[4].id = out[3].id
    /\ out[1].name = "file_search"
    /\ out[3].name = "web_search"

\* the positions of events holding a tool event of the given tool and status
\* under an identity other than id
OtherIdentityAt(events, tool, status, id) ==
    {i \in ToolEventsOf(events, tool) : events[i].status = status /\ events[i].id # id}

\* C23: duplicate suppression works per identity, not per canonical tool:
\* no two tool events of the output share identity and status, and two
\* events of one tool and status always differ in identity.  (The turn the
\* claim says exists is C23_Witness.)
C23_SuppressionPerIdentity ==
    \A i, j \in 1..Len(out) :
        (/\ out[i].kind = "tool" /\ out[j].kind = "tool"
         /\ out[i].status = out[j].status
         /\ out[i].id = out[j].id) => i = j

\* a citation produced the pair of web_search under ws_annotation, and later
\* evidence for web_search under another identifier caused a further
\* started event and a further completed event naming web_search
C23_Witness ==
    \E p \in ToolEventsAt(out, "completed", "ws_annotation") :
        /\ ToolEventsAt(out, "started", "ws_annotation") # {}
        /\ out[p].name = "web_search"
        /\ \E q \in OtherIdentityAt(out, "web_search", "started", "ws_annotation") : q > p
        /\ \E q \in OtherIdentityAt(out, "web_search", "completed", "ws_annotation") : q > p

\* the step is taken while the stream is consumed (the final flush excluded)
WhileStreaming == pc = "stream" /\ pc' = "stream"

\* C24: while streaming, a ReasoningUpdate is emitted only at a clock
\* reading at least REASONING_THROTTLE_MS after the reading of the previous
\* streamed ReasoningUpdate of the turn; a fragment with text that arrives
\* inside the interval updates the buffer and emits nothing.
C24_ThrottledWhileStreaming ==
    [][WhileStreaming =>
         LET sent == EventsOfKind(NewEvents, "reasoning")
             inside == sent_at # <<>> /\ now' - sent_at[1] < REASONING_THROTTLE_MS
         IN /\ (sent # {} /\ sent_at # <<>>) => now' - sent_at[1] >= REASONING_THROTTLE_MS
            /\ sent # {} => sent_at' = <<now'>>
            /\ (inside /\ Len(snapshots') > Len(snapshots)) =>
                  /\ NewEvents = <<>>
                  /\ accumulated_reasoning' = Last(snapshots')
                  /\ sent_at' = sent_at]_vars

\* two streamed ReasoningUpdates 120 ms apart, with a fragment 60 ms after
\* the first that changed the buffer and sent nothing
C24_Witness ==
    /\ pc = "stream"
    /\ Len(snapshots) = 3
    /\ snapshots[1] # snapshots[2]
    /\ Cardinality(EventsOfKind(out, "reasoning")) = 2
    /\ sent_at = <<now>>
    /\ now = StartTimeMs + 120

\* C25: every ReasoningUpdate carries the whole reasoning buffer of the
\* moment it is emitted, and the texts of the ReasoningUpdates of a turn
\* form a prefix chain: each is a prefix of every later one.
C25_ReasoningPrefixChain ==
    /\ [](\A i, j \in EventsOfKind(out, "reasoning") :
             i < j => IsPrefix(out[i].text, out[j].text))
    /\ [][\A i \in EventsOfKind(NewEvents, "reasoning") :
             NewEvents[i].text = accumulated_reasoning']_vars

\* three ReasoningUpdates of growing text: two sent while streaming, after
\* a cumulative and after a delta fragment, and the final one
C25_Witness ==
    /\ pc = "returned"
    /\ \E i, j, k \in EventsOfKind(out, "reasoning") :
          /\ i < j /\ j < k
          /\ Len(out[i].text) < Len(out[j].text)
          /\ out[j].text = out[k].text
          /\ out[k].text = accumulated_reasoning

\* the text holds one of the two messages of run_agent_stream's Error payload
HoldsErrorPayload(text) == \E i \in 1..Len(text) : text[i] \in {MsgUnavailable, MsgGeneric}

\* C26: when the upstream faults, the client's stream holds exactly one
\* event bearing an error, the {"error": message} event; the Error payload
\* of run_agent_stream is in no text-chunk event and not in the cumulative
\* assistant content.
C26_OneErrorBearingEvent ==
    pc = "raised" =>
        /\ Cardinality(EventsOfKind(sse, "error")) = 1
        /\ \A i \in EventsOfKind(sse, "text") : ~HoldsErrorPayload(sse[i].text)
        /\ ~HoldsErrorPayload(assistant_content)

\* the message list a get_conversation of id returns from D, <<>> when it
\* returns None
MessagesOf(D, id) ==
    LET G == get_conversation(D, D.container = "cosmos", id, {})
    IN IF ~G.found THEN <<>>
       ELSE IF G.D.container = "cosmos" THEN G.item.messages
       ELSE G.D.heap[G.item.messages]

\* client t alone has sent requests
OnlyClient(t) == \A u \in Turns \ {t} : chat_turns[u] = ChatTurn("idle", 0, "", UserText("", 0), 0, <<>>)

\* C27: once a turn has ended in an error or without assistant text, a
\* get_conversation of its thread returns the message list it returned
\* before the turn (no other client having sent a request).
C27_FailedTurnLeavesConversation ==
    \A t \in Turns :
        (/\ chat_turns[t].pc \in {"error", "done"}
         /\ ~chat_turns[t].saved
         /\ OnlyClient(t)) =>
            MessagesOf(db, chat_turns[t].thread_id) = chat_turns[t].before

\* C28: for every tool-invocation identity, the completed event of the
\* output carries the tool name its started event carries.
C28_CompletedNamesStarted ==
    \A i, j \in 1..Len(out) :
        (/\ out[i].kind = "tool" /\ out[i].status = "started"
         /\ out[j].kind = "tool" /\ out[j].status = "completed"
         /\ out[i].id = out[j].id) => out[i].name = out[j].name

RECURSIVE TextOf(_)
\* the texts of the TextChunks among events, concatenated in order
TextOf(events) ==
    IF events = <<>> THEN <<>>
    ELSE (IF Head(events).kind = "text" THEN Head(events).text ELSE <<>>) \o TextOf(Tail(events))

\* C29: on a successful turn that persists an assistant message, the
\* accumulated assistant content, which is the message, and the content of the last text-chunk event are
\* the concatenation of the texts of all TextChunks run_agent_stream
\* yielded, whitespace-only chunks included; the content of each text-chunk
\* event extends that of the one before.
C29_ContentIsAllChunks ==
    LET chunks == EventsOfKind(sse, "text")
    IN /\ \A i, j \in chunks : i < j => IsPrefix(sse[i].text, sse[j].text)
       /\ (pc = "done" /\ assistant_content # <<>>) =>
             /\ assistant_content = TextOf(out)
             /\ \A i \in chunks : (\A j \in chunks : j <= i) => sse[i].text = TextOf(out)

\* C30: a POST /api/chat with a valid body whose shield check fails
\* (check_prompt_shield catches an exception) is rejected as a request in
\* which an attack is detected is: status 400, the conversation not looked
\* up, no stream opened, the agent not invoked.
C30_ShieldFailureRejects ==
    [][\A t \in Turns, configured \in BOOLEAN, uuid \in ConvIds :
         \A body \in {b \in ChatBodies : ValidChatRequest(b)} :
            PostChat(t, configured, body, uuid, check_prompt_shield(TRUE, "raises"), {}) =>
                /\ chat_turns'[t].pc = "blocked"
                /\ chat_turns'[t].status = 400
                /\ ~chat_turns'[t].looked
                /\ db' = db]_vars

=============================================================================
